---- MODULE Spec2Model ----
(***************************************************************************)
(* A model of the 3scale Go client (github.com/3scale/3scale-go-client).   *)
(*                                                                         *)
(* Part 1: package api, utilities.go -- the Metrics and Hierarchy types    *)
(* and the parent/child aggregation on them.                               *)
(*                                                                         *)
(* Go maps are reference types, so a Metrics value is modelled as an       *)
(* address into a heap of map objects; a method that writes m[name]        *)
(* writes the object its receiver points to.  Go leaves the order of a     *)
(* range over a map unspecified and lets a range see, or miss, an entry    *)
(* created while it runs; the two hierarchy functions range over the map   *)
(* they are updating, so each is modelled by the SET of heaps it can       *)
(* leave behind, one per admissible iteration order.                       *)
(*                                                                         *)
(* Part 2: package http, builder.go -- a Request is turned into the HTTP   *)
(* request sent to the backend (query string and 3scale-options header).   *)
(*                                                                         *)
(* Part 3: package http, client.go -- the backend's response is decoded    *)
(* into an AuthorizeResult or a ReportResult.                              *)
(*                                                                         *)
(* Eight specifications share the variables:                               *)
(*   Spec      one Metrics map under Add, Set and Delete;                  *)
(*   SpecHier  AddHierarchyToMetrics and SubtractHierarchyFromMetrics on   *)
(*             every small Metrics map and Hierarchy;                      *)
(*   SpecAgg   sequences of the five calls from the Metrics maps without   *)
(*             a negative value;                                           *)
(*   SpecCopy  DeepCopy of a Metrics map and of a Hierarchy, followed by   *)
(*             the caller's writes to the original and to the clone;       *)
(*   SpecEnc   Authorize, AuthRep and Report on every small Request, the   *)
(*             backend answering 200 with a plain success body;            *)
(*   SpecDec   the same three calls on one Request, over the responses     *)
(*             (status, headers, body, transport failure) of the backend.  *)
(*   SpecCall  one call with Options followed step by step, with the       *)
(*             goroutine of its instrumentation callback;                  *)
(*   SpecCallLive  SpecCall under the fairness of the caller and of the    *)
(*             scheduler.                                                  *)
(*                                                                         *)
(* Go's int is 64 bits wide; the values explored stay far from its limits, *)
(* so the arithmetic below is that of the integers.                        *)
(***************************************************************************)
EXTENDS Integers, Sequences, FiniteSets, TLC

VARIABLES
    heap,       \* address -> Metrics map object (DOMAIN heap: allocated objects)
    m,          \* the caller's Metrics value (an address)
    res,        \* the Metrics value last returned to the caller (0: none yet)
    hierarchy,  \* the caller's Hierarchy value: parent -> list of children
    hist,       \* the calls made so far, newest last (what each was given and returned)
    hheap,      \* address -> Hierarchy map object: parent -> slice [arr, len]
    arrays,     \* address -> backing array of a []string (its length is the capacity)
    horig,      \* the caller's Hierarchy object (an address into hheap; 0: none)
    hclone,     \* the Hierarchy object horig.DeepCopy() returned (0: none yet)
    request,    \* the threescale.Request the caller hands to the HTTP client
    httpReq,    \* what requestBuilder.build returned for it: [kind, req, err]
    response,   \* the *http.Response the transport hands back, with the
                \* Extensions of the request it answers
    result,     \* what the call returned to the caller: [kind, res, err]
    options,    \* the *Options of the call: [context, instrumentationCB]
    pc,         \* where the caller is in the call: "idle", "roundtrip"
                \* (inside httpClient.Do), "decode" or "returned"
    sent,       \* how often the call has invoked httpClient.Do
    cb          \* the goroutine the call starts for the instrumentation
                \* callback: [state, calls], calls the arguments of every
                \* invocation of the callback

vars == <<heap, m, res, hierarchy, hist, hheap, arrays, horig, hclone,
          request, httpReq, response, result, options, pc, sent, cb>>

\* The state of a call of the HTTP client, which package api never writes.
httpVars == <<request, httpReq, response, result, options, pc, sent, cb>>

\* The state of package api, which the HTTP client never writes.
apiVars == <<heap, m, res, hierarchy, hist, hheap, arrays, horig, hclone>>

\* The state of the Hierarchy objects, which no method of Metrics writes.
hierVars == <<hheap, arrays, horig, hclone>>

\* The state of the Metrics objects.
metricsVars == <<heap, m, res, hierarchy>>

(***************************************************************************)
(* Bounds of the model.                                                    *)
(***************************************************************************)
MaxVal == 2        \* largest metric value / argument explored
MaxCalls == 2      \* longest chain of calls explored by SpecHier
MaxWrites == 2     \* writes the caller makes after a DeepCopy in SpecCopy

Names == {"hits", "child_one", "child_two"}
Parents == Names

\* Values of the int arguments of Add and Set.
ArgVals == (0 - MaxVal)..MaxVal
\* Values of the metrics a caller hands to the hierarchy functions.
InitVals == (0 - 1)..MaxVal

(***************************************************************************)
(* Go map primitives on a map value (a function with a finite domain).     *)
(***************************************************************************)
EmptyMap == [n \in {} |-> 0]

Put(mp, k, v) == [n \in (DOMAIN mp) \cup {k} |-> IF n = k THEN v ELSE mp[n]]

Remove(mp, k) == [n \in (DOMAIN mp) \ {k} |-> mp[n]]

\* make(...): the next unused address.
NewAddr(hp) == Cardinality(DOMAIN hp) + 1

(***************************************************************************)
(* utilities.go: contains                                                  *)
(***************************************************************************)
contains(key, in) == \E i \in 1..Len(in) : in[i] = key

(***************************************************************************)
(* utilities.go: Metrics.Add / Set / Delete / DeepCopy.  Each takes the    *)
(* heap and the receiver's address and gives the heap afterwards with what *)
(* the method returns (err is TRUE when a non-nil error is returned).      *)
(***************************************************************************)
\* Faulty variant: the new value is stored before it is checked.
MetricsAddStoresFirst(hp, recv, name, value) ==
    IF name \in DOMAIN hp[recv]
    THEN LET currentValue == hp[recv][name]
             newValue == currentValue + value
         IN  [heap |-> [hp EXCEPT ![recv] = Put(@, name, newValue)],
              ret |-> IF newValue < 0 THEN currentValue ELSE newValue,
              err |-> newValue < 0]
    ELSE [heap |-> [hp EXCEPT ![recv] = Put(@, name, value)],
          ret |-> value, err |-> FALSE]

\* Faulty variant: the check for a negative result is made for a new entry too.
MetricsAddChecksSeed(hp, recv, name, value) ==
    LET currentValue == IF name \in DOMAIN hp[recv] THEN hp[recv][name] ELSE 0
        newValue == currentValue + value
    IN  IF newValue < 0
        THEN [heap |-> hp, ret |-> currentValue, err |-> TRUE]
        ELSE [heap |-> [hp EXCEPT ![recv] = Put(@, name, newValue)],
              ret |-> newValue, err |-> FALSE]

MetricsAdd(hp, recv, name, value) ==
    IF name \in DOMAIN hp[recv]
    THEN LET currentValue == hp[recv][name]
             newValue == currentValue + value
         IN  IF newValue < 0
             THEN [heap |-> hp, ret |-> currentValue, err |-> TRUE]
             ELSE [heap |-> [hp EXCEPT ![recv] = Put(@, name, newValue)],
                   ret |-> newValue, err |-> FALSE]
    ELSE [heap |-> [hp EXCEPT ![recv] = Put(@, name, value)],
          ret |-> value, err |-> FALSE]

\* Faulty variant: the value is stored before it is checked.
MetricsSetStoresFirst(hp, recv, name, value) ==
    [heap |-> [hp EXCEPT ![recv] = Put(@, name, value)], ret |-> 0, err |-> value < 0]

MetricsSet(hp, recv, name, value) ==
    IF value < 0
    THEN [heap |-> hp, ret |-> 0, err |-> TRUE]
    ELSE [heap |-> [hp EXCEPT ![recv] = Put(@, name, value)],
          ret |-> 0, err |-> FALSE]

MetricsDelete(hp, recv, name) ==
    [heap |-> [hp EXCEPT ![recv] = Remove(@, name)], ret |-> 0, err |-> FALSE]

\* Faulty variant: clone := m, the receiver's own map is handed back.
MetricsDeepCopyShallow(hp, recv) == [heap |-> hp, ret |-> recv]

\* clone := make(Metrics, len(m)); for k, v := range m { clone[k] = v }
MetricsDeepCopy(hp, recv) ==
    LET clone == NewAddr(hp)
    IN  [heap |-> (clone :> [k \in DOMAIN hp[recv] |-> hp[recv][k]]) @@ hp,
         ret |-> clone]

(***************************************************************************)
(* The body of the inner loop of AddHierarchyToMetrics and of              *)
(* SubtractHierarchyFromMetrics, for the entry (metric, v) of the map at   *)
(* address a.  The errors of Add and Set are dropped, as in the source.    *)
(***************************************************************************)
AddBody(hp, a, parent, children, metric) ==
    LET v == hp[a][metric]
    IN  IF contains(metric, children)
        THEN IF parent \in DOMAIN hp[a]
             THEN MetricsAdd(hp, a, parent, v).heap
             ELSE MetricsSet(hp, a, parent, v).heap
        ELSE hp

\* Faulty variant: a negative difference is stored instead of deleting the parent.
SubtractBodyKeepsNegative(hp, a, parent, children, metric) ==
    LET v == hp[a][metric]
    IN  IF contains(metric, children) /\ parent \in DOMAIN hp[a]
        THEN [hp EXCEPT ![a] = Put(@, parent, hp[a][parent] - v)]
        ELSE hp

\* Faulty variant: an unknown parent is given the negated value of its child.
SubtractBodyCreates(hp, a, parent, children, metric) ==
    LET v == hp[a][metric]
    IN  IF contains(metric, children)
        THEN IF parent \in DOMAIN hp[a]
             THEN LET newValue == hp[a][parent] - v
                  IN  IF newValue < 0
                      THEN [hp EXCEPT ![a] = Remove(@, parent)]
                      ELSE MetricsSet(hp, a, parent, newValue).heap
             ELSE [hp EXCEPT ![a] = Put(@, parent, 0 - v)]
        ELSE hp

SubtractBody(hp, a, parent, children, metric) ==
    LET v == hp[a][metric]
    IN  IF contains(metric, children) /\ parent \in DOMAIN hp[a]
        THEN LET newValue == hp[a][parent] - v
             IN  IF newValue < 0
                 THEN [hp EXCEPT ![a] = Remove(@, parent)]
                 ELSE MetricsSet(hp, a, parent, newValue).heap
        ELSE hp

Body(op, hp, a, parent, children, metric) ==
    IF op = "add" THEN AddBody(hp, a, parent, children, metric)
                  ELSE SubtractBody(hp, a, parent, children, metric)

(***************************************************************************)
(* for metric, v := range metrics { Body }  -- every heap the loop can     *)
(* end with.  todo: the entries present when the loop began and not yet    *)
(* reached; seen: the entries already produced.  An entry of todo removed  *)
(* before it is reached is not produced; an entry created by the loop may  *)
(* be produced (once) or skipped.                                          *)
(***************************************************************************)
RECURSIVE RangeMetrics(_, _, _, _, _, _, _)
RangeMetrics(op, hp, a, parent, children, todo, seen) ==
    LET created == (DOMAIN hp[a]) \ (todo \cup seen)
    IN  (IF todo = {} THEN {hp} ELSE {})
        \cup UNION { IF k \in DOMAIN hp[a]
                     THEN RangeMetrics(op, Body(op, hp, a, parent, children, k),
                                       a, parent, children, todo \ {k}, seen \cup {k})
                     ELSE RangeMetrics(op, hp, a, parent, children, todo \ {k}, seen)
                   : k \in todo }
        \cup UNION { RangeMetrics(op, Body(op, hp, a, parent, children, k),
                                  a, parent, children, todo, seen \cup {k})
                   : k \in created }

\* for parent, children := range hierarchy { for metric, v := range metrics {...} }
RECURSIVE RangeHierarchy(_, _, _, _, _)
RangeHierarchy(op, hp, a, h, todo) ==
    IF todo = {} THEN {hp}
    ELSE UNION { UNION { RangeHierarchy(op, hp2, a, h, todo \ {parent})
                       : hp2 \in RangeMetrics(op, hp, a, parent, h[parent],
                                              DOMAIN hp[a], {}) }
               : parent \in todo }

(***************************************************************************)
(* utilities.go: Metrics.AddHierarchyToMetrics and                         *)
(* Metrics.SubtractHierarchyFromMetrics: the set of outcomes [heap, ret].  *)
(***************************************************************************)
AddHierarchyToMetrics(hp, recv, h) ==
    LET c == MetricsDeepCopy(hp, recv)
    IN  { [heap |-> hp2, ret |-> c.ret]
        : hp2 \in RangeHierarchy("add", c.heap, c.ret, h, DOMAIN h) }

SubtractHierarchyFromMetrics(hp, recv, h) ==
    LET c == MetricsDeepCopy(hp, recv)
    IN  { [heap |-> hp2, ret |-> c.ret]
        : hp2 \in RangeHierarchy("sub", c.heap, c.ret, h, DOMAIN h) }

(***************************************************************************)
(* The record of one call, and the log of calls.                           *)
(***************************************************************************)
NoCall == [op |-> "none", recv |-> 0, name |-> "", value |-> 0,
           in |-> EmptyMap, ret |-> 0, retv |-> 0, err |-> FALSE]

Call(op, recv, name, value, in, ret, retv, err) ==
    [op |-> op, recv |-> recv, name |-> name, value |-> value,
     in |-> in, ret |-> ret, retv |-> retv, err |-> err]

\* The newest call (NoCall before the first one) and the one before it.
Last == IF Len(hist) = 0 THEN NoCall ELSE hist[Len(hist)]
Prev == IF Len(hist) < 2 THEN NoCall ELSE hist[Len(hist) - 1]

\* keep: how many earlier calls stay in the log.
Log(rec, keep) ==
    hist' = Append(IF Len(hist) <= keep THEN hist
                   ELSE SubSeq(hist, Len(hist) - keep + 1, Len(hist)), rec)

(***************************************************************************)
(* Actions: one call of a method of Metrics by the caller.                 *)
(***************************************************************************)
Add(recv, name, value, keep) ==
    LET r == MetricsAdd(heap, recv, name, value)
    IN  /\ \A n \in DOMAIN r.heap[recv] : r.heap[recv][n] <= MaxVal
        /\ heap' = r.heap
        /\ Log(Call("Add", recv, name, value, heap[recv], 0, r.ret, r.err), keep)
        /\ UNCHANGED <<m, res, hierarchy, hierVars, httpVars>>

Set(recv, name, value, keep) ==
    LET r == MetricsSet(heap, recv, name, value)
    IN  /\ heap' = r.heap
        /\ Log(Call("Set", recv, name, value, heap[recv], 0, 0, r.err), keep)
        /\ UNCHANGED <<m, res, hierarchy, hierVars, httpVars>>

Delete(recv, name, keep) ==
    LET r == MetricsDelete(heap, recv, name)
    IN  /\ heap' = r.heap
        /\ Log(Call("Delete", recv, name, 0, heap[recv], 0, 0, FALSE), keep)
        /\ UNCHANGED <<m, res, hierarchy, hierVars, httpVars>>

AddHierarchy(recv, keep) ==
    \E o \in AddHierarchyToMetrics(heap, recv, hierarchy) :
        /\ heap' = o.heap
        /\ res' = o.ret
        /\ Log(Call("AddHierarchyToMetrics", recv, "", 0, heap[recv], o.ret, 0, FALSE), keep)
        /\ UNCHANGED <<m, hierarchy, hierVars, httpVars>>

SubtractHierarchy(recv, keep) ==
    \E o \in SubtractHierarchyFromMetrics(heap, recv, hierarchy) :
        /\ heap' = o.heap
        /\ res' = o.ret
        /\ Log(Call("SubtractHierarchyFromMetrics", recv, "", 0, heap[recv], o.ret, 0, FALSE), keep)
        /\ UNCHANGED <<m, hierarchy, hierVars, httpVars>>

\* No Hierarchy object is held as an object of the heap.
NoHierarchyObjects == hheap = <<>> /\ arrays = <<>> /\ horig = 0 /\ hclone = 0

\* No call of the HTTP client has been made or prepared.
None == [kind |-> "none"]

NoHTTPCall ==
    /\ request = None /\ httpReq = None /\ response = None /\ result = None
    /\ options = None /\ pc = "idle" /\ sent = 0 /\ cb = None

(***************************************************************************)
(* Spec: one Metrics map, built from make(Metrics) by Add, Set and Delete. *)
(***************************************************************************)
Init ==
    /\ heap = (1 :> EmptyMap)
    /\ m = 1
    /\ res = 0
    /\ hierarchy = EmptyMap
    /\ hist = <<>>
    /\ NoHierarchyObjects
    /\ NoHTTPCall

Next ==
    \/ \E name \in Names, value \in ArgVals : Add(m, name, value, 0)
    \/ \E name \in Names, value \in ArgVals : Set(m, name, value, 0)
    \/ \E name \in Names : Delete(m, name, 0)

Spec == Init /\ [][Next]_vars

(***************************************************************************)
(* SpecHier: the hierarchy functions on every small Metrics and Hierarchy, *)
(* applied to the caller's map or to a map returned before, and the        *)
(* caller's later writes to a returned map.                                *)
(***************************************************************************)
MetricsValues == UNION { [S -> InitVals] : S \in SUBSET Names }

\* One list per non-empty set of children: contains looks neither at the
\* order of a list nor at how often a name is in it.
NameOrder == <<"hits", "child_one", "child_two">>

ListOf(S) == SelectSeq(NameOrder, LAMBDA x : x \in S)

ChildLists == { ListOf(S) : S \in (SUBSET Names) \ {{}} }

\* The backend reports a forest: no metric is its own ancestor.
RECURSIVE Descendants(_, _, _)
Descendants(h, p, depth) ==
    IF depth = 0 \/ p \notin DOMAIN h THEN {}
    ELSE LET cs == { h[p][i] : i \in 1..Len(h[p]) }
         IN  cs \cup UNION { Descendants(h, c, depth - 1) : c \in cs }

Acyclic(h) == \A p \in DOMAIN h : p \notin Descendants(h, p, Cardinality(Names))

Hierarchies ==
    { h \in UNION { [S -> ChildLists] : S \in SUBSET Parents } : Acyclic(h) }

InitHier ==
    /\ \E mp \in MetricsValues : heap = (1 :> mp)
    /\ m = 1
    /\ res = 0
    /\ hierarchy \in Hierarchies
    /\ hist = <<>>
    /\ NoHierarchyObjects
    /\ NoHTTPCall

\* The first call is made on the caller's map, every later one on the map
\* the call before returned.
Receiver == IF res = 0 THEN m ELSE res

NextHier ==
    \/ Len(hist) < MaxCalls /\ AddHierarchy(Receiver, MaxCalls)
    \/ Len(hist) < MaxCalls /\ SubtractHierarchy(Receiver, MaxCalls)
    \/ \E name \in Names :
          Len(hist) < MaxCalls /\ res # 0 /\ Add(res, name, 1, MaxCalls)
    \/ \E name \in Names :
          Len(hist) < MaxCalls /\ res # 0 /\ Set(res, name, MaxVal, MaxCalls)
    \/ \E name \in Names :
          Len(hist) < MaxCalls /\ res # 0 /\ Delete(res, name, MaxCalls)

SpecHier == InitHier /\ [][NextHier]_vars

(***************************************************************************)
(* SpecAgg: a Metrics map without a negative value under any sequence of   *)
(* up to MaxCalls calls of Add, Set, Delete and the two hierarchy          *)
(* functions, each made on the map the caller holds last.  The hierarchy   *)
(* is any map, also one in which a metric is its own ancestor.             *)
(***************************************************************************)
InitAgg ==
    /\ \E mp \in UNION { [S -> {0, 1, MaxVal}] : S \in SUBSET Names } : heap = (1 :> mp)
    /\ m = 1
    /\ res = 0
    /\ hierarchy \in { ("hits" :> <<"child_one", "child_two">>),
                       ("hits" :> <<"child_one">>) @@ ("child_one" :> <<"child_two">>),
                       ("hits" :> <<"child_one">>) @@ ("child_one" :> <<"hits">>),
                       ("hits" :> <<"hits", "child_one">>) }
    /\ hist = <<>>
    /\ NoHierarchyObjects
    /\ NoHTTPCall

NextAgg ==
    \/ \E name \in Names, value \in {0 - 1, MaxVal} :
          Len(hist) < MaxCalls /\ Add(Receiver, name, value, MaxCalls)
    \/ \E name \in Names, value \in {0 - 1, MaxVal} :
          Len(hist) < MaxCalls /\ Set(Receiver, name, value, MaxCalls)
    \/ \E name \in Names :
          Len(hist) < MaxCalls /\ Delete(Receiver, name, MaxCalls)
    \/ Len(hist) < MaxCalls /\ AddHierarchy(Receiver, MaxCalls)
    \/ Len(hist) < MaxCalls /\ SubtractHierarchy(Receiver, MaxCalls)

SpecAgg == InitAgg /\ [][NextAgg]_vars

(***************************************************************************)
(* Hierarchy objects.  A Hierarchy is a map from a parent to a []string; a *)
(* []string is a slice [arr, len] into a backing array (arr = 0: the nil   *)
(* slice), whose length in `arrays` is the capacity of the slice.          *)
(***************************************************************************)
NilSlice == [arr |-> 0, len |-> 0]

\* The elements of a slice.
Elems(ar, sl) == IF sl.arr = 0 THEN <<>> ELSE SubSeq(ar[sl.arr], 1, sl.len)

\* The capacity of a slice.
Cap(ar, sl) == IF sl.arr = 0 THEN 0 ELSE Len(ar[sl.arr])

\* What a Hierarchy object holds: parent -> list of children.
HierarchyValue(hh, ar, x) == [k \in DOMAIN hh[x] |-> Elems(ar, hh[x][k])]

\* The zero value of the elements of a backing array beyond the length.
Blank(n) == [i \in 1..n |-> ""]

\* Faulty variant: clone[k] = v, the child list is handed over with its array.
CloneListShared(ar, v) == [arrays |-> ar, slice |-> v]

\* var clonedV []string; clonedV = append(clonedV, v...)
\* Appending nothing leaves clonedV nil; otherwise a new array of exactly
\* len(v) elements is allocated (lists this short fill a size class).
CloneList(ar, v) ==
    IF v.len = 0
    THEN [arrays |-> ar, slice |-> NilSlice]
    ELSE [arrays |-> Append(ar, Elems(ar, v)),
          slice |-> [arr |-> Len(ar) + 1, len |-> v.len]]

\* for k, v := range h { ...; clone[k] = clonedV }   (the order of the range
\* decides only which address each new array gets)
RECURSIVE CloneEntries(_, _, _, _, _)
CloneEntries(hh, ar, recv, clone, todo) ==
    IF todo = {} THEN [hheap |-> hh, arrays |-> ar]
    ELSE LET k == CHOOSE x \in todo : TRUE
             c == CloneList(ar, hh[recv][k])
         IN  CloneEntries([hh EXCEPT ![clone] = Put(@, k, c.slice)],
                          c.arrays, recv, clone, todo \ {k})

(***************************************************************************)
(* utilities.go: Hierarchy.DeepCopy                                        *)
(***************************************************************************)
HierarchyDeepCopy(hh, ar, recv) ==
    LET clone == Len(hh) + 1
        r == CloneEntries(Append(hh, EmptyMap), ar, recv, clone, DOMAIN hh[recv])
    IN  [hheap |-> r.hheap, arrays |-> r.arrays, ret |-> clone]

(***************************************************************************)
(* The statements with which a caller writes to a Hierarchy x              *)
(* (utilities_test.go: clone["hits"] = []string{"x"}).                     *)
(***************************************************************************)
\* x[k] = []string{c}
HierarchyPut(hh, ar, x, k, c) ==
    [hheap |-> [hh EXCEPT ![x] = Put(@, k, [arr |-> Len(ar) + 1, len |-> 1])],
     arrays |-> Append(ar, <<c>>)]

\* delete(x, k)
HierarchyDelete(hh, ar, x, k) ==
    [hheap |-> [hh EXCEPT ![x] = Remove(@, k)], arrays |-> ar]

\* x[k][i] = c
HierarchySetChild(hh, ar, x, k, i, c) ==
    [hheap |-> hh, arrays |-> [ar EXCEPT ![hh[x][k].arr][i] = c]]

\* x[k] = append(x[k], c): in place when the capacity allows, otherwise in
\* a new array of twice the capacity.
HierarchyAppendChild(hh, ar, x, k, c) ==
    LET sl == hh[x][k]
    IN  IF sl.len < Cap(ar, sl)
        THEN [hheap |-> [hh EXCEPT ![x][k].len = sl.len + 1],
              arrays |-> [ar EXCEPT ![sl.arr][sl.len + 1] = c]]
        ELSE LET newcap == IF sl.len = 0 THEN 1 ELSE 2 * sl.len
             IN  [hheap |-> [hh EXCEPT ![x] =
                                Put(@, k, [arr |-> Len(ar) + 1, len |-> sl.len + 1])],
                  arrays |-> Append(ar, Elems(ar, sl) \o <<c>>
                                        \o Blank(newcap - sl.len - 1))]

(***************************************************************************)
(* Actions of SpecCopy: DeepCopy of the caller's Metrics and Hierarchy,    *)
(* and the caller's writes to the original and to the clone.               *)
(***************************************************************************)
DeepCopy(keep) ==
    LET r == MetricsDeepCopy(heap, m)
    IN  /\ heap' = r.heap
        /\ res' = r.ret
        /\ Log(Call("DeepCopy", m, "", 0, heap[m], r.ret, 0, FALSE), keep)
        /\ UNCHANGED <<m, hierarchy, hierVars, httpVars>>

HDeepCopy(keep) ==
    LET r == HierarchyDeepCopy(hheap, arrays, horig)
    IN  /\ hheap' = r.hheap
        /\ arrays' = r.arrays
        /\ hclone' = r.ret
        /\ Log(Call("HierarchyDeepCopy", horig, "", 0, EmptyMap, r.ret, 0, FALSE), keep)
        /\ UNCHANGED <<horig, metricsVars, httpVars>>

HWrite(op, x, k, i, r, keep) ==
    /\ hheap' = r.hheap
    /\ arrays' = r.arrays
    /\ Log(Call(op, x, k, i, EmptyMap, 0, 0, FALSE), keep)
    /\ UNCHANGED <<horig, hclone, metricsVars, httpVars>>

HPut(x, k, c, keep) ==
    HWrite("HierarchyPut", x, k, 0, HierarchyPut(hheap, arrays, x, k, c), keep)

HDelete(x, k, keep) ==
    HWrite("HierarchyDelete", x, k, 0, HierarchyDelete(hheap, arrays, x, k), keep)

HSetChild(x, k, i, c, keep) ==
    /\ k \in DOMAIN hheap[x]
    /\ i \in 1..hheap[x][k].len
    /\ HWrite("HierarchySetChild", x, k, i,
              HierarchySetChild(hheap, arrays, x, k, i, c), keep)

HAppendChild(x, k, c, keep) ==
    /\ k \in DOMAIN hheap[x]
    /\ HWrite("HierarchyAppendChild", x, k, 0,
              HierarchyAppendChild(hheap, arrays, x, k, c), keep)

(***************************************************************************)
(* SpecCopy: the caller holds a Metrics map and a Hierarchy, takes a       *)
(* DeepCopy of one of them and then writes to the original and the clone.  *)
(***************************************************************************)
\* The Hierarchy value hv as an object at address 1: every child list in
\* an array of its own, filled to its capacity.
RECURSIVE Store(_, _, _, _)
Store(hv, hh, ar, todo) ==
    IF todo = {} THEN [hheap |-> hh, arrays |-> ar]
    ELSE LET k == CHOOSE x \in todo : TRUE
         IN  Store(hv, [hh EXCEPT ![1] = Put(@, k, [arr |-> Len(ar) + 1,
                                                    len |-> Len(hv[k])])],
                   Append(ar, hv[k]), todo \ {k})

\* The Hierarchy values copied: up to two parents, each with any list of
\* ChildLists or with the empty list.
CopyHierarchies ==
    UNION { [S -> ChildLists \cup {<<>>}] : S \in SUBSET {"hits", "child_one"} }

InitCopy ==
    /\ NoHTTPCall
    /\ m = 1
    /\ res = 0
    /\ hierarchy = EmptyMap
    /\ hist = <<>>
    /\ horig = 1
    /\ hclone = 0
    /\ \/ /\ \E mp \in MetricsValues : heap = <<mp>>
          /\ hheap = <<EmptyMap>>
          /\ arrays = <<>>
       \/ /\ heap = <<EmptyMap>>
          /\ \E hv \in CopyHierarchies :
                LET s == Store(hv, <<EmptyMap>>, <<>>, DOMAIN hv)
                IN  hheap = s.hheap /\ arrays = s.arrays

Copied == Len(hist) > 0 /\ Len(hist) <= MaxWrites

NextCopy ==
    \/ hist = <<>> /\ DeepCopy(MaxWrites)
    \/ hist = <<>> /\ HDeepCopy(MaxWrites)
    \/ \E x \in {m, res}, name \in Names :
          Copied /\ res # 0 /\ Add(x, name, 1, MaxWrites)
    \/ \E x \in {m, res}, name \in Names :
          Copied /\ res # 0 /\ Set(x, name, MaxVal, MaxWrites)
    \/ \E x \in {m, res}, name \in Names :
          Copied /\ res # 0 /\ Delete(x, name, MaxWrites)
    \/ \E x \in {horig, hclone}, k \in Names :
          Copied /\ hclone # 0 /\ HPut(x, k, "child_two", MaxWrites)
    \/ \E x \in {horig, hclone}, k \in Names :
          Copied /\ hclone # 0 /\ HDelete(x, k, MaxWrites)
    \/ \E x \in {horig, hclone}, k \in Names, i \in 1..Cardinality(Names) :
          Copied /\ hclone # 0 /\ HSetChild(x, k, i, "hits", MaxWrites)
    \/ \E x \in {horig, hclone}, k \in Names :
          Copied /\ hclone # 0 /\ HAppendChild(x, k, "child_one", MaxWrites)

SpecCopy == InitCopy /\ [][NextCopy]_vars

(***************************************************************************)
(* What the claims are stated with.                                        *)
(***************************************************************************)
HierarchyWrites ==
    {"HierarchyPut", "HierarchyDelete", "HierarchySetChild", "HierarchyAppendChild"}

HierarchyOps == {"AddHierarchyToMetrics", "SubtractHierarchyFromMetrics"}

NonNegative(mp) == \A n \in DOMAIN mp : mp[n] >= 0

ValueOf(mp, n) == IF n \in DOMAIN mp THEN mp[n] ELSE 0

RECURSIVE SumOf(_, _)
SumOf(mp, S) ==
    IF S = {} THEN 0
    ELSE LET n == CHOOSE x \in S : TRUE IN mp[n] + SumOf(mp, S \ {n})

\* The children of parent p that are present in the map mp.
PresentChildren(mp, h, p) == { c \in DOMAIN mp : contains(c, h[p]) }

\* The parents of h with at least one child present in mp.
ActiveParents(mp, h) == { p \in DOMAIN h : PresentChildren(mp, h, p) # {} }

\* The map the newest call returned, as it is now.
Result == heap[Last.ret]

(***************************************************************************)
(* C1: AddHierarchyToMetrics(m, h) gives every parent with a present child *)
(* its value in m (0 if absent) plus the values in m of its present        *)
(* children, keeps every other metric of m, and adds no other key.         *)
(* Stated for maps m without negative values.                              *)
(***************************************************************************)
C1_AddTotals ==
    (Last.op = "AddHierarchyToMetrics" /\ NonNegative(Last.in)) =>
        Result = [ n \in (DOMAIN Last.in) \cup ActiveParents(Last.in, hierarchy) |->
                     IF n \in ActiveParents(Last.in, hierarchy)
                     THEN ValueOf(Last.in, n)
                          + SumOf(Last.in, PresentChildren(Last.in, hierarchy, n))
                     ELSE Last.in[n] ]

(***************************************************************************)
(* C2: the map AddHierarchyToMetrics(m, h) returns is the same for every   *)
(* order in which the parents and the entries of the map are ranged over.  *)
(* Stated for maps m without negative values.                              *)
(***************************************************************************)
C2_AddOrderIndependent ==
    (Last.op = "AddHierarchyToMetrics" /\ NonNegative(Last.in)) =>
        \A o \in AddHierarchyToMetrics((1 :> Last.in), 1, hierarchy) :
            o.heap[o.ret] = Result

(***************************************************************************)
(* C3: SubtractHierarchyFromMetrics(m, h) removes a parent that is in m    *)
(* when its value less the values of its present children is negative, and *)
(* otherwise leaves it with exactly that difference.                       *)
(* Stated for maps m without negative values.                              *)
(***************************************************************************)
C3_SubtractRemovesOrDecrements ==
    (Last.op = "SubtractHierarchyFromMetrics" /\ NonNegative(Last.in)) =>
        \A p \in (DOMAIN hierarchy) \cap (DOMAIN Last.in) :
            LET d == Last.in[p] - SumOf(Last.in, PresentChildren(Last.in, hierarchy, p))
            IN  IF d < 0 THEN p \notin DOMAIN Result
                ELSE p \in DOMAIN Result /\ Result[p] = d

(***************************************************************************)
(* C4: subtracting h from the map AddHierarchyToMetrics(m, h) returned     *)
(* gives every parent of h the value it had in m (an absent parent         *)
(* counting as 0), when m has no negative value and the subtraction        *)
(* removes no parent.                                                      *)
(***************************************************************************)
C4_RoundTrip ==
    ( /\ Prev.op = "AddHierarchyToMetrics"
      /\ Last.op = "SubtractHierarchyFromMetrics"
      /\ Last.recv = Prev.ret
      /\ NonNegative(Prev.in)
      /\ (DOMAIN hierarchy) \cap (DOMAIN Last.in) \subseteq DOMAIN Result ) =>
        \A p \in DOMAIN hierarchy : ValueOf(Result, p) = ValueOf(Prev.in, p)

(***************************************************************************)
(* C5: a call of AddHierarchyToMetrics or SubtractHierarchyFromMetrics     *)
(* changes no map that existed before it (its receiver among them) and     *)
(* returns a map that did not exist before; the hierarchy is never         *)
(* changed; and nothing the caller then writes to a returned map changes   *)
(* the caller's own map m.                                                 *)
(***************************************************************************)
C5_ReceiverUntouched ==
    [][ /\ hierarchy' = hierarchy
        /\ heap'[m] = heap[m]
        /\ Last'.op \in HierarchyOps =>
              /\ \A a \in DOMAIN heap : a \in DOMAIN heap' /\ heap'[a] = heap[a]
              /\ Last'.ret \notin DOMAIN heap
              /\ res' = Last'.ret ]_vars

\* A returned map that differs from m was written by the caller, and m is
\* as it was given to the call.
C5_Witness ==
    /\ Prev.op = "AddHierarchyToMetrics"
    /\ Prev.recv = m
    /\ Prev.in # heap[Prev.ret]
    /\ Last.op = "Delete"
    /\ Last.recv = Prev.ret
    /\ Last.name \in DOMAIN Last.in
    /\ heap[m] = Prev.in

(***************************************************************************)
(* C6: Add on a name that is in the map: a negative sum gives an error,    *)
(* returns the current value and leaves the map as it was; any other sum   *)
(* is stored and returned without an error, and no other entry changes.    *)
(***************************************************************************)
C6_AddExisting ==
    (Last.op = "Add" /\ Last.name \in DOMAIN Last.in) =>
        LET currentValue == Last.in[Last.name]
            sum == currentValue + Last.value
        IN  IF sum < 0
            THEN Last.err /\ Last.retv = currentValue /\ heap[Last.recv] = Last.in
            ELSE /\ ~Last.err
                 /\ Last.retv = sum
                 /\ heap[Last.recv] = Put(Last.in, Last.name, sum)

\* Add("hits", -2) on a map holding hits = 1.
C6_Witness ==
    /\ Last.op = "Add"
    /\ Last.name \in DOMAIN Last.in
    /\ Last.in[Last.name] + Last.value < 0
    /\ Last.in[Last.name] > 0
    /\ Last.err

(***************************************************************************)
(* C7: Add on a name that is not in the map never fails and creates the    *)
(* entry with the value given, negative or not; nothing else changes.      *)
(***************************************************************************)
C7_AddAbsent ==
    (Last.op = "Add" /\ Last.name \notin DOMAIN Last.in) =>
        /\ ~Last.err
        /\ Last.retv = Last.value
        /\ heap[Last.recv] = Put(Last.in, Last.name, Last.value)

\* An entry created with a negative value.
C7_Witness ==
    /\ Last.op = "Add"
    /\ Last.name \notin DOMAIN Last.in
    /\ Last.value < 0
    /\ heap[Last.recv][Last.name] = Last.value

(***************************************************************************)
(* C8: SubtractHierarchyFromMetrics creates no entry: every key of the map *)
(* it returns is a key of its receiver, so a parent that is not in m is    *)
(* not in the result.                                                      *)
(***************************************************************************)
C8_SubtractCreatesNothing ==
    Last.op = "SubtractHierarchyFromMetrics" =>
        (DOMAIN Result) \subseteq (DOMAIN Last.in)

\* A parent that is not in m and has a child with a positive value in m.
C8_Witness ==
    /\ Last.op = "SubtractHierarchyFromMetrics"
    /\ \E p \in DOMAIN hierarchy :
          /\ p \notin DOMAIN Last.in
          /\ \E c \in PresentChildren(Last.in, hierarchy, p) : Last.in[c] > 0
          /\ p \notin DOMAIN Result

(***************************************************************************)
(* C9: Set with a negative value gives an error and leaves the map as it   *)
(* was; with any other value it gives no error and stores the value under  *)
(* the name, whatever was there, changing no other entry.                  *)
(***************************************************************************)
C9_Set ==
    Last.op = "Set" =>
        IF Last.value < 0
        THEN Last.err /\ heap[Last.recv] = Last.in
        ELSE ~Last.err /\ heap[Last.recv] = Put(Last.in, Last.name, Last.value)

\* Set with a negative value on a name that holds a value.
C9_Witness ==
    /\ Last.op = "Set"
    /\ Last.value < 0
    /\ Last.name \in DOMAIN Last.in
    /\ Last.err

(***************************************************************************)
(* C10: DeepCopy of a Metrics and of a Hierarchy returns a new object      *)
(* that holds what the original holds and leaves the original as it was;   *)
(* after that, no write of the caller to the clone (an entry changed,      *)
(* added or deleted, an element of a child list changed or appended)       *)
(* changes what the original holds, and no write to the original changes   *)
(* what the clone holds.                                                   *)
(***************************************************************************)
C10_DeepCopyIndependent ==
    [][ /\ Last'.op = "DeepCopy" =>
              /\ res' \notin DOMAIN heap
              /\ heap'[res'] = heap[m]
              /\ heap'[m] = heap[m]
        /\ Last'.op = "HierarchyDeepCopy" =>
              /\ hclone' \notin DOMAIN hheap
              /\ HierarchyValue(hheap', arrays', hclone')
                    = HierarchyValue(hheap, arrays, horig)
              /\ HierarchyValue(hheap', arrays', horig)
                    = HierarchyValue(hheap, arrays, horig)
        /\ (Last'.op \in {"Add", "Set", "Delete"} /\ Last'.recv = res) =>
              heap'[m] = heap[m]
        /\ (Last'.op \in {"Add", "Set", "Delete"} /\ Last'.recv = m) =>
              heap'[res] = heap[res]
        /\ (Last'.op \in HierarchyWrites /\ Last'.recv = hclone) =>
              HierarchyValue(hheap', arrays', horig)
                 = HierarchyValue(hheap, arrays, horig)
        /\ (Last'.op \in HierarchyWrites /\ Last'.recv = horig) =>
              HierarchyValue(hheap', arrays', hclone)
                 = HierarchyValue(hheap, arrays, hclone) ]_vars

\* The caller has overwritten an element of a child list of the clone, and
\* the clone no longer holds what the original holds.
C10_Witness ==
    /\ Last.op = "HierarchySetChild"
    /\ Last.recv = hclone
    /\ hclone # 0
    /\ \E k \in (DOMAIN hheap[horig]) \cap (DOMAIN hheap[hclone]) :
          /\ Elems(arrays, hheap[hclone][k]) # Elems(arrays, hheap[horig][k])
          /\ Len(Elems(arrays, hheap[horig][k])) > 1

(***************************************************************************)
(* Part 2: package http, builder.go -- the encoding of a threescale.Request *)
(* into the query and the headers of an *http.Request.                     *)
(*                                                                         *)
(* A string the code only copies or compares is a TLA+ string.  A string   *)
(* whose characters the code looks at (an extension key or value, the      *)
(* value of a response header that is parsed, a children attribute) is a   *)
(* sequence of characters.  A nil map or pointer is [nil |-> TRUE].        *)
(***************************************************************************)
\* A nil map or pointer, and an Extensions map that is not nil.
NilValue == [nil |-> TRUE]

Extensions(kv) == [nil |-> FALSE, kv |-> kv]

MaxTx == 2         \* most transactions in one Request
MaxExts == 2       \* most entries of an Extensions map that is encoded

\* strconv.Itoa / strconv.FormatInt(_, 10): the decimal digits, most
\* significant first, after a '-' for a negative number.
Digits == <<"0", "1", "2", "3", "4", "5", "6", "7", "8", "9">>

RECURSIVE FormatUint(_)
FormatUint(n) ==
    IF n < 10 THEN Digits[n + 1]
    ELSE FormatUint(n \div 10) \o Digits[(n % 10) + 1]

Itoa(n) == IF n < 0 THEN "-" \o FormatUint(0 - n) ELSE FormatUint(n)

\* url.Values: key -> list of values.  Values.Add appends to the list of
\* the key.  Values.Encode writes one key=value per value, the keys sorted
\* and key and value escaped; it is kept as the set of the <<key, value>>
\* written.
ValuesAdd(values, key, value) ==
    IF key \in DOMAIN values THEN [values EXCEPT ![key] = Append(@, value)]
    ELSE Put(values, key, <<value>>)

ValuesEncode(values) ==
    UNION { { <<k, values[k][i]>> : i \in 1..Len(values[k]) } : k \in DOMAIN values }

\* builder.go: joinValues -- every entry of joinExisting is written into to.
joinValues(joinExisting, to) ==
    [k \in (DOMAIN to) \cup (DOMAIN joinExisting) |->
        IF k \in DOMAIN joinExisting THEN joinExisting[k] ELSE to[k]]

serviceIDKey == "service_id"

serviceToValues(s) == (serviceIDKey :> <<s>>)

authToValues(auth) == ValuesAdd(EmptyMap, auth.Type, auth.Value)

\* builder.go: metricsToValues.  The keys of distinct metrics are distinct,
\* so the order of the range does not show in the result.
usageKey(metricName) == "usage[" \o metricName \o "]"

RECURSIVE metricsRange(_, _, _)
metricsRange(values, mt, todo) ==
    IF todo = {} THEN values
    ELSE LET metricName == CHOOSE x \in todo : TRUE
         IN  metricsRange(ValuesAdd(values, usageKey(metricName), Itoa(mt[metricName])),
                          mt, todo \ {metricName})

metricsToValues(mt) == metricsRange(EmptyMap, mt, DOMAIN mt)

\* types.go: the fields of Params, in order, each with its json tag.
ParamsFields ==
    << <<"AppID", "app_id">>, <<"AppKey", "app_key">>, <<"Referrer", "referrer">>,
       <<"UserID", "user_id">>, <<"UserKey", "user_key">> >>

\* Faulty variant: a field is written whether or not it is empty.
RECURSIVE paramsFieldsAll(_, _, _)
paramsFieldsAll(values, p, i) ==
    IF i > Len(ParamsFields) THEN values
    ELSE paramsFieldsAll(ValuesAdd(values, ParamsFields[i][2], p[ParamsFields[i][1]]),
                         p, i + 1)

paramsToValuesKeepsEmpty(p) == paramsFieldsAll(EmptyMap, p, 1)

\* builder.go: paramsToValues.
RECURSIVE paramsFields(_, _, _)
paramsFields(values, p, i) ==
    IF i > Len(ParamsFields) THEN values
    ELSE LET tag == ParamsFields[i][2]
             valueToAdd == p[ParamsFields[i][1]]
         IN  paramsFields(IF valueToAdd # "" THEN ValuesAdd(values, tag, valueToAdd)
                          ELSE values, p, i + 1)

paramsToValues(p) == paramsFields(EmptyMap, p, 1)

\* builder.go: transactionToValues.
txParamKey(index, k) == "transactions[" \o Itoa(index) \o "][" \o k \o "]"
txUsageKey(index, k) == "transactions[" \o Itoa(index) \o "][usage][" \o k \o "]"
txTimestampKey(index) == "transactions[" \o Itoa(index) \o "][timestamp]"

RECURSIVE txParamsRange(_, _, _, _)
txParamsRange(values, index, paramValues, todo) ==
    IF todo = {} THEN values
    ELSE LET k == CHOOSE x \in todo : TRUE
         IN  txParamsRange(ValuesAdd(values, txParamKey(index, k), paramValues[k][1]),
                           index, paramValues, todo \ {k})

RECURSIVE txMetricsRange(_, _, _, _)
txMetricsRange(values, index, mt, todo) ==
    IF todo = {} THEN values
    ELSE LET k == CHOOSE x \in todo : TRUE
         IN  txMetricsRange(ValuesAdd(values, txUsageKey(index, k), Itoa(mt[k])),
                            index, mt, todo \ {k})

transactionValues(index, t) ==
    LET paramValues == paramsToValues(t.Params)
        v1 == txParamsRange(EmptyMap, index, paramValues, DOMAIN paramValues)
        v2 == txMetricsRange(v1, index, t.Metrics, DOMAIN t.Metrics)
    IN  IF t.Timestamp # 0
        THEN ValuesAdd(v2, txTimestampKey(index), Itoa(t.Timestamp))
        ELSE v2

\* Faulty variant: every transaction is written under index 0.
transactionToValuesFirstIndex(index, t) == transactionValues(0, t)

transactionToValues(index, t) == transactionValues(index, t)

\* builder.go: setValues.  index of the range is the position from 0.
auth == "auth"
authRep == "authRep"
report == "report"

RECURSIVE transactionsRange(_, _, _)
transactionsRange(values, transactions, i) ==
    IF i > Len(transactions) THEN values
    ELSE transactionsRange(joinValues(values, transactionToValues(i - 1, transactions[i])),
                           transactions, i + 1)

baseValues(in) ==
    joinValues(joinValues(EmptyMap, serviceToValues(in.Service)), authToValues(in.Auth))

\* Faulty variant: auth and authrep take the newest transaction.
setValuesLast(in, kind) ==
    IF kind = report THEN transactionsRange(baseValues(in), in.Transactions, 1)
    ELSE LET t == in.Transactions[Len(in.Transactions)]
         IN  joinValues(joinValues(baseValues(in), metricsToValues(t.Metrics)),
                        paramsToValues(t.Params))

setValues(in, kind) ==
    IF kind = report THEN transactionsRange(baseValues(in), in.Transactions, 1)
    ELSE LET values == joinValues(baseValues(in),
                                  metricsToValues(in.Transactions[1].Metrics))
         IN  joinValues(values, paramsToValues(in.Transactions[1].Params))

\* net/url QueryEscape, character by character: a letter, a digit, '-',
\* '_', '.' and '~' stay, a space becomes '+', every other byte becomes
\* '%' and its two upper-case hex digits.
Hex ==
    (" " :> <<"+">>) @@ ("=" :> <<"%", "3", "D">>) @@ ("&" :> <<"%", "2", "6">>)
    @@ (";" :> <<"%", "3", "B">>) @@ ("%" :> <<"%", "2", "5">>)
    @@ ("+" :> <<"%", "2", "B">>) @@ ("@" :> <<"%", "4", "0">>)

shouldEscape(c) == c \in DOMAIN Hex

RECURSIVE escapeFrom(_, _)
escapeFrom(s, i) ==
    IF i > Len(s) THEN <<>>
    ELSE (IF shouldEscape(s[i]) THEN Hex[s[i]] ELSE <<s[i]>>) \o escapeFrom(s, i + 1)

\* Faulty variant: url.PathEscape, which leaves '=', '&', ';', '+' and '@'
\* as they are and writes a space as %20.
RECURSIVE pathEscapeFrom(_, _)
pathEscapeFrom(s, i) ==
    IF i > Len(s) THEN <<>>
    ELSE (IF s[i] = " " THEN <<"%", "2", "0">>
          ELSE IF s[i] = "%" THEN Hex[s[i]] ELSE <<s[i]>>) \o pathEscapeFrom(s, i + 1)

PathEscape(s) == pathEscapeFrom(s, 1)

QueryEscape(s) == escapeFrom(s, 1)

\* builder.go: encodeExtensions, one result per order of the range over
\* the map (a nil map has no entry).
RECURSIVE extensionsRange(_, _, _)
extensionsRange(exts, kv, todo) ==
    IF todo = {} THEN {exts}
    ELSE UNION { extensionsRange(
                    (IF exts # <<>> THEN exts \o <<"&">> ELSE exts)
                        \o QueryEscape(k) \o <<"=">> \o QueryEscape(kv[k]),
                    kv, todo \ {k}) : k \in todo }

encodeExtensions(extensions) ==
    IF extensions.nil THEN {<<>>}
    ELSE extensionsRange(<<>>, extensions.kv, DOMAIN extensions.kv)

\* client.go: the endpoints; builder.go: kindToHTTPRequest.  http.NewRequest
\* fails when the URL does not parse, as for the base URL of the tests.
authzEndpoint == "/transactions/authorize.xml"
authRepEndpoint == "/transactions/authrep.xml"
reportEndpoint == "/transactions.xml"
defaultBackendUrl == "https://su1.3scale.net:443"
invalidBackendUrl == "/some/invalid/value%_"
BaseURLs == {defaultBackendUrl, invalidBackendUrl}
enableExtensions == "3scale-options"

NewRequest(method, url) ==
    IF \E e \in {authzEndpoint, authRepEndpoint, reportEndpoint} :
          url = invalidBackendUrl \o e
    THEN [req |-> [nil |-> TRUE], err |-> TRUE]
    ELSE [req |-> [nil |-> FALSE, Method |-> method, URL |-> url,
                   RawQuery |-> {}, Header |-> EmptyMap],
          err |-> FALSE]

kindToHTTPRequest(baseURL, kind) ==
    CASE kind = auth -> NewRequest("GET", baseURL \o authzEndpoint)
      [] kind = authRep -> NewRequest("GET", baseURL \o authRepEndpoint)
      [] kind = report -> NewRequest("POST", baseURL \o reportEndpoint)
      [] OTHER -> [req |-> [nil |-> TRUE], err |-> TRUE]

\* builder.go: build -- the set of [req, err] it can return.
build(in, baseURL, kind) ==
    LET r == kindToHTTPRequest(baseURL, kind)
    IN  IF r.err THEN {r}
        ELSE LET values == setValues(in, kind)
                 req1 == [r.req EXCEPT !.Header = Put(@, "Accept", "application/xml"),
                                       !.RawQuery = ValuesEncode(values)]
             IN  IF ~in.Extensions.nil
                 THEN { [req |-> [req1 EXCEPT !.Header = Put(@, enableExtensions, h)],
                         err |-> FALSE] : h \in encodeExtensions(in.Extensions) }
                 ELSE { [req |-> req1, err |-> FALSE] }

(***************************************************************************)
(* Part 3: package http, client.go -- the decoding of the *http.Response   *)
(* of the backend into an AuthorizeResult or a ReportResult.               *)
(*                                                                         *)
(* The body of a response is kept as the XML document it holds (or as no   *)
(* XML at all), a header as name -> value.  Bytes gives the characters of  *)
(* the strings the decoder parses.                                         *)
(***************************************************************************)
MaxReports == 2    \* most usage_report elements in one response
MaxMetrics == 2    \* most metric elements of the hierarchy in one response

limitRemainingHeaderKey == "3scale-limit-remaining"
limitResetHeaderKey == "3scale-limit-reset"
rejectionReasonHeaderKey == "3scale-Rejection-Reason"

\* api/types.go: the keys of the extensions the decoder looks for.
LimitExtension == <<"l", "i", "m", "i", "t", "_", "h", "e", "a", "d", "e", "r", "s">>
HierarchyExtension == <<"h", "i", "e", "r", "a", "r", "c", "h", "y">>
NoBodyExtension == <<"n", "o", "_", "b", "o", "d", "y">>

\* extensions[key] of a map that may be nil: the value and whether it is there.
Requested(extensions, key) == ~extensions.nil /\ key \in DOMAIN extensions.kv

\* http.Header.Get: the value of the header, "" when it is not there.
HeaderGet(header, key) == IF key \in DOMAIN header THEN header[key] ELSE ""

Bytes ==
    ("" :> <<>>) @@ ("5" :> <<"5">>) @@ ("0" :> <<"0">>) @@ ("100" :> <<"1", "0", "0">>)
    @@ ("-1" :> <<"-", "1">>) @@ ("abc" :> <<"a", "b", "c">>) @@ ("1x" :> <<"1", "x">>)
    @@ ("a" :> <<"a">>) @@ ("a a b" :> <<"a", " ", "a", " ", "b">>)
    @@ ("b a b" :> <<"b", " ", "a", " ", "b">>) @@ (" a" :> <<" ", "a">>)
    @@ ("a  b" :> <<"a", " ", " ", "b">>)

\* The string of a sequence of characters.
RECURSIVE StringOf(_)
StringOf(cs) == IF cs = <<>> THEN "" ELSE Head(cs) \o StringOf(Tail(cs))

\* strconv.Atoi: an optional sign and then one or more decimal digits.
RECURSIVE parseUint(_, _, _)
parseUint(cs, i, acc) ==
    LET DigitOf(c) == CHOOSE d \in 0..9 : Digits[d + 1] = c
    IN  IF i > Len(cs) THEN acc ELSE parseUint(cs, i + 1, 10 * acc + DigitOf(cs[i]))

Atoi(s) ==
    LET cs == Bytes[s]
        signed == cs # <<>> /\ Head(cs) \in {"+", "-"}
        ds == IF signed THEN Tail(cs) ELSE cs
        IsDigit(c) == \E d \in 0..9 : Digits[d + 1] = c
    IN  IF ds = <<>> \/ \E i \in 1..Len(ds) : ~IsDigit(ds[i])
        THEN [v |-> 0, err |-> TRUE]
        ELSE [v |-> IF signed /\ Head(cs) = "-" THEN 0 - parseUint(ds, 1, 0)
                    ELSE parseUint(ds, 1, 0),
              err |-> FALSE]

\* strings.Split(s, " ") of a string that is not empty: the pieces between
\* the spaces, the empty ones too.
RECURSIVE splitFrom(_, _, _)
splitFrom(cs, sep, cur) ==
    IF cs = <<>> THEN <<StringOf(cur)>>
    ELSE IF Head(cs) = sep THEN <<StringOf(cur)>> \o splitFrom(Tail(cs), sep, <<>>)
    ELSE splitFrom(Tail(cs), sep, Append(cur, Head(cs)))

Split(s, sep) == splitFrom(Bytes[s], sep, <<>>)

\* time.Parse(timeLayout, timestamp).Unix() for the timestamps of the
\* responses of the tests; a text that is not in the layout gives an error.
Unix ==
    ("2019-02-22 14:32:00 +0000" :> 1550845920)
    @@ ("2019-02-22 14:33:00 +0000" :> 1550845980)
    @@ ("2019-02-22 14:00:00 +0000" :> 1550844000)
    @@ ("2019-02-22 14:59:59 +0000" :> 1550847599)

parseTime(timestamp) ==
    IF timestamp \in DOMAIN Unix THEN [t |-> Unix[timestamp], err |-> FALSE]
    ELSE [t |-> 0, err |-> TRUE]

\* api/types.go: Period; client.go: granularityMap (0 for a period it does
\* not hold).
Minute == 0
Hour == 1
Day == 2
Week == 3
Month == 4
Year == 5
Eternity == 6

granularityMap ==
    [minute |-> Minute, hour |-> Hour, day |-> Day, week |-> Week, month |-> Month,
     year |-> Year, eternity |-> Eternity]

granularity(period) ==
    IF period \in DOMAIN granularityMap THEN granularityMap[period] ELSE 0

\* client.go: convertXmlToUsageReport: [report, err].
convertXmlToUsageReport(ur) ==
    LET usageReport == [PeriodWindow |-> [Period |-> 0, Start |-> 0, End |-> 0],
                   MaxValue |-> ur.MaxValue, CurrentValue |-> ur.CurrentValue]
        start == parseTime(ur.PeriodStart)
        end == parseTime(ur.PeriodEnd)
    IN  IF start.err THEN [report |-> usageReport, err |-> TRUE]
        ELSE IF end.err THEN [report |-> usageReport, err |-> TRUE]
        ELSE [report |-> [usageReport EXCEPT !.PeriodWindow =
                             [Period |-> granularity(ur.Period),
                              Start |-> start.t, End |-> end.t]],
              err |-> FALSE]

NilMap == [nil |-> TRUE, kv |-> EmptyMap]

MapOf(kv) == [nil |-> FALSE, kv |-> kv]

\* Faulty variant: usageReports[report.Metric] = converted, the newest
\* report of a metric replaces the ones before it.
RECURSIVE reportsRangeOverwrites(_, _, _)
reportsRangeOverwrites(usageReports, xmlReports, i) ==
    IF i > Len(xmlReports) THEN usageReports
    ELSE LET c == convertXmlToUsageReport(xmlReports[i])
         IN  reportsRangeOverwrites(
                 IF ~c.err THEN Put(usageReports, xmlReports[i].Metric, <<c.report>>)
                 ELSE usageReports, xmlReports, i + 1)

convertXmlUsageReportsOverwrites(xmlReports) ==
    IF Len(xmlReports) = 0 THEN NilMap
    ELSE MapOf(reportsRangeOverwrites(EmptyMap, xmlReports, 1))

\* client.go: convertXmlUsageReports.
RECURSIVE reportsRange(_, _, _)
reportsRange(usageReports, xmlReports, i) ==
    IF i > Len(xmlReports) THEN usageReports
    ELSE LET rep == xmlReports[i]
             c == convertXmlToUsageReport(rep)
             currentReports == IF rep.Metric \in DOMAIN usageReports
                               THEN usageReports[rep.Metric] ELSE <<>>
         IN  reportsRange(
                 IF ~c.err THEN Put(usageReports, rep.Metric, Append(currentReports, c.report))
                 ELSE usageReports, xmlReports, i + 1)

convertXmlUsageReports(xmlReports) ==
    IF Len(xmlReports) = 0 THEN NilMap
    ELSE MapOf(reportsRange(EmptyMap, xmlReports, 1))

\* client.go: convertXmlHierarchy.
ChildrenOf(hmap, name) ==
    IF name \in DOMAIN hmap THEN hmap[name] ELSE <<>>

\* Faulty variant: a child is appended whether or not the list holds it.
RECURSIVE childrenRangeAll(_, _, _, _)
childrenRangeAll(hmap, name, children, j) ==
    IF j > Len(children) THEN hmap
    ELSE childrenRangeAll(Put(hmap, name, Append(ChildrenOf(hmap, name), children[j])),
                          name, children, j + 1)

childrenRangeKeepsDuplicates(hmap, name, children) ==
    childrenRangeAll(hmap, name, children, 1)

RECURSIVE childrenRangeFrom(_, _, _, _)
childrenRangeFrom(hmap, name, children, j) ==
    IF j > Len(children) THEN hmap
    ELSE childrenRangeFrom(
             IF ~contains(children[j], ChildrenOf(hmap, name))
             THEN Put(hmap, name, Append(ChildrenOf(hmap, name), children[j]))
             ELSE hmap, name, children, j + 1)

childrenRange(hmap, name, children) == childrenRangeFrom(hmap, name, children, 1)

RECURSIVE hierarchyRange(_, _, _)
hierarchyRange(hmap, metric, i) ==
    IF i > Len(metric) THEN hmap
    ELSE hierarchyRange(
             IF metric[i].Children # ""
             THEN childrenRange(hmap, metric[i].Name, Split(metric[i].Children, " "))
             ELSE hmap, metric, i + 1)

convertXmlHierarchy(xmlHierarchy) == MapOf(hierarchyRange(EmptyMap, xmlHierarchy.Metric, 1))

\* An error value: NoError is nil, any other value the message of the error.
NoError == "<nil>"
errHttpReq == "error building http transaction"
errUnableToProcess == "unable to process request"
errEOF == "EOF"
errElementType == "expected element type <error>"

\* client.go: handleRateLimitExtensions.
handleRateLimitExtensions(resp) ==
    LET limitRem == HeaderGet(resp.Header, limitRemainingHeaderKey)
        limReset == HeaderGet(resp.Header, limitResetHeaderKey)
    IN  [nil |-> FALSE,
         LimitRemaining |-> IF limitRem # "" /\ ~Atoi(limitRem).err
                            THEN Atoi(limitRem).v ELSE 0,
         LimitReset |-> IF limReset # "" /\ ~Atoi(limReset).err
                        THEN Atoi(limReset).v ELSE 0]

\* client.go: parseRejectionReasonHeader.
parseRejectionReasonHeader(resp) == HeaderGet(resp.Header, rejectionReasonHeaderKey)

\* Faulty variant: the code of the body is taken when there is one.
errorCodePrefersBody(code, resp) ==
    IF code # "" THEN code ELSE parseRejectionReasonHeader(resp)

\* client.go: the function literal of handleAuthXMLResp that gives ErrorCode.
errorCode(code, resp) ==
    LET headerCode == parseRejectionReasonHeader(resp)
    IN  IF headerCode # "" THEN headerCode ELSE code

\* client.go: handleAuthExtensions.
handleAuthExtensions(xmlResp, resp, extensions) ==
    IF extensions.nil THEN [Hierarchy |-> NilMap, RateLimits |-> NilValue]
    ELSE [Hierarchy |-> IF Requested(extensions, HierarchyExtension)
                        THEN convertXmlHierarchy(xmlResp.Hierarchy) ELSE NilMap,
          RateLimits |-> IF Requested(extensions, LimitExtension)
                         THEN handleRateLimitExtensions(resp) ELSE NilValue]

\* threescale/client.go: AuthorizeResult and ReportResult (RawResponse, the
\* pointer to the response, is left out: the response is in the state).
AuthorizeResult(authorized, usageReports, code, reason, exts) ==
    [nil |-> FALSE, Authorized |-> authorized, UsageReports |-> usageReports,
     ErrorCode |-> code, RejectionReason |-> reason,
     Hierarchy |-> exts.Hierarchy, RateLimits |-> exts.RateLimits]

ReportResult(accepted, code) == [nil |-> FALSE, Accepted |-> accepted, ErrorCode |-> code]

NoExtensions == [Hierarchy |-> NilMap, RateLimits |-> NilValue]

\* xml.NewDecoder(resp.Body).Decode into internal.AuthResponseXML (any root
\* element) and into internal.ReportErrorXML (root element error).
\* Faulty variant: only a status document is accepted.
decodeAuthResponseXMLStatusOnly(body) ==
    IF ~body.xml THEN [err |-> errEOF]
    ELSE IF body.root # "status" THEN [err |-> errElementType]
    ELSE [err |-> NoError,
          v |-> [Authorized |-> body.authorized, Reason |-> body.reason,
                 Code |-> body.code, Hierarchy |-> [Metric |-> body.metric],
                 UsageReports |-> [Reports |-> body.reports]]]

decodeAuthResponseXML(body) ==
    IF ~body.xml THEN [err |-> errEOF]
    ELSE [err |-> NoError,
          v |-> [Authorized |-> body.authorized, Reason |-> body.reason,
                 Code |-> body.code, Hierarchy |-> [Metric |-> body.metric],
                 UsageReports |-> [Reports |-> body.reports]]]

decodeReportErrorXML(body) ==
    IF ~body.xml THEN [err |-> errEOF]
    ELSE IF body.root # "error" THEN [err |-> errElementType]
    ELSE [err |-> NoError, v |-> [Code |-> body.code]]

\* client.go: handleAuthXMLResp: [res, err].
handleAuthXMLResp(resp, extensions) ==
    LET d == decodeAuthResponseXML(resp.Body)
    IN  IF d.err # NoError THEN [res |-> NilValue, err |-> d.err]
        ELSE [res |-> AuthorizeResult(d.v.Authorized,
                                      convertXmlUsageReports(d.v.UsageReports.Reports),
                                      errorCode(d.v.Code, resp), d.v.Reason,
                                      handleAuthExtensions(d.v, resp, extensions)),
              err |-> NoError]

\* Faulty variant: every status in 200..299 counts as authorized.
handleNoBodyExtensionForAuthAny2xx(resp, extensions) ==
    LET rl == IF Requested(extensions, LimitExtension)
              THEN handleRateLimitExtensions(resp) ELSE NilValue
    IN  IF resp.StatusCode \in 200..299
        THEN AuthorizeResult(TRUE, NilMap, "", "", [Hierarchy |-> NilMap, RateLimits |-> rl])
        ELSE AuthorizeResult(FALSE, NilMap, parseRejectionReasonHeader(resp), "",
                             [Hierarchy |-> NilMap, RateLimits |-> rl])

\* client.go: handleNoBodyExtensionForAuth.
handleNoBodyExtensionForAuth(resp, extensions) ==
    LET rl == IF Requested(extensions, LimitExtension)
              THEN handleRateLimitExtensions(resp) ELSE NilValue
    IN  IF resp.StatusCode = 200
        THEN AuthorizeResult(TRUE, NilMap, "", "", [Hierarchy |-> NilMap, RateLimits |-> rl])
        ELSE AuthorizeResult(FALSE, NilMap, parseRejectionReasonHeader(resp), "",
                             [Hierarchy |-> NilMap, RateLimits |-> rl])

\* Faulty variant: a response is decoded whatever its status.
executeAuthCallDecodesServerErrors(do, extensions) ==
    IF do.err # NoError THEN [res |-> NilValue, err |-> do.err]
    ELSE IF Requested(extensions, NoBodyExtension)
            /\ extensions.kv[NoBodyExtension] = <<"1">>
    THEN [res |-> handleNoBodyExtensionForAuth(do, extensions), err |-> NoError]
    ELSE handleAuthXMLResp(do, extensions)

\* client.go: executeAuthCall, for a call without options (no callback is
\* set and the context is context.TODO()).  do: what httpClient.Do(req)
\* returned, an error or a response.
executeAuthCall(do, extensions) ==
    IF do.err # NoError THEN [res |-> NilValue, err |-> do.err]
    ELSE IF do.StatusCode >= 500
    THEN [res |-> AuthorizeResult(FALSE, NilMap, "", "", NoExtensions),
          err |-> errUnableToProcess]
    ELSE IF Requested(extensions, NoBodyExtension)
            /\ extensions.kv[NoBodyExtension] = <<"1">>
    THEN [res |-> handleNoBodyExtensionForAuth(do, extensions), err |-> NoError]
    ELSE handleAuthXMLResp(do, extensions)

\* client.go: handleReportingError.
handleReportingError(resp) ==
    IF resp.StatusCode >= 500
    THEN [res |-> ReportResult(FALSE, ""), err |-> errUnableToProcess]
    ELSE LET d == decodeReportErrorXML(resp.Body)
         IN  IF d.err # NoError THEN [res |-> NilValue, err |-> d.err]
             ELSE [res |-> ReportResult(FALSE, d.v.Code), err |-> NoError]

\* Faulty variant: only the status 200 counts as accepted.
executeReportCallOnly200(do, extensions) ==
    IF do.err # NoError THEN [res |-> NilValue, err |-> do.err]
    ELSE IF do.StatusCode # 200 THEN handleReportingError(do)
    ELSE [res |-> ReportResult(TRUE, ""), err |-> NoError]

\* client.go: executeReportCall, for a call without options.
executeReportCall(do, extensions) ==
    IF do.err # NoError THEN [res |-> NilValue, err |-> do.err]
    ELSE IF ~(do.StatusCode >= 200 /\ do.StatusCode <= 299) THEN handleReportingError(do)
    ELSE [res |-> ReportResult(TRUE, ""), err |-> NoError]

(***************************************************************************)
(* One call of the client: Authorize and AuthRep (doAuthOrAuthRep) and     *)
(* Report (doReport) build the HTTP request, hand it to the transport and  *)
(* decode what comes back.  response holds what the transport will return. *)
(***************************************************************************)
\* The call runs from its start to its return; its goroutine, left with no
\* callback to invoke, is not followed.
Do(kind) ==
    /\ httpReq = None /\ pc = "idle"
    /\ options.instrumentationCB = "nil"
    /\ \E baseURL \in BaseURLs : \E b \in build(request, baseURL, kind) :
          /\ httpReq' = [kind |-> kind, in |-> request, baseURL |-> baseURL,
                         req |-> b.req, err |-> b.err]
          /\ result' =
                IF b.err THEN [kind |-> kind, res |-> NilValue, err |-> errHttpReq]
                ELSE LET r == IF kind = report
                              THEN executeReportCall(response, request.Extensions)
                              ELSE executeAuthCall(response, request.Extensions)
                     IN  [kind |-> kind, res |-> r.res, err |-> r.err]
          /\ sent' = IF b.err THEN sent ELSE sent + 1
    /\ pc' = "returned"
    /\ UNCHANGED <<request, response, options, cb, apiVars>>

Authorize == Do(auth)
AuthRep == Do(authRep)
Report == Do(report)

NextCall == Authorize \/ AuthRep \/ Report

(***************************************************************************)
(* SpecEnc: the caller holds a Request and makes one call, an Authorize, an *)
(* AuthRep or a Report, for which the client builds the HTTP request.      *)
(***************************************************************************)
\* package api is not used: its state is that of a fresh Metrics map.
NoAggregation ==
    /\ heap = (1 :> EmptyMap)
    /\ m = 1
    /\ res = 0
    /\ hierarchy = EmptyMap
    /\ hist = <<>>
    /\ NoHierarchyObjects

\* options.go: newOptions() without an Option: the context is context.TODO()
\* and no callback is set.
newOptions == [context |-> "TODO", instrumentationCB |-> "nil"]

\* A call without Options that has not begun: no goroutine has been started.
NoCallStarted ==
    /\ options = newOptions
    /\ pc = "idle" /\ sent = 0
    /\ cb = [state |-> "none", calls |-> <<>>]

NoParams == [AppID |-> "", AppKey |-> "", Referrer |-> "", UserID |-> "", UserKey |-> ""]

\* The Extensions encoded: a map of one entry takes key and value from
\* ExtStrings, a map of more entries its keys from ExtKeys and its values
\* from ExtValues.
ExtMaps ==
    LET ExtStrings ==
            { <<>>, <<"a">>, <<"=">>, <<"&">>, <<";">>, <<" ">>, <<"%">>, <<"+">>,
              <<"a", "=">>, <<"a", "&", "a">>, <<"%", "2", "6">>, <<"a", " ", "@">> }
        ExtKeys == { <<"a">>, <<"a", "=">>, <<"a", "&", "a">>, <<"&">>, <<"%", "2", "6">> }
        ExtValues == { <<>>, <<"1">>, <<"&", "=">>, <<"a", ";", " ">> }
    IN  UNION { [S -> ExtStrings] : S \in { {k} : k \in ExtStrings } \cup {{}} }
        \cup
        UNION { [S -> ExtValues] :
                  S \in { T \in SUBSET ExtKeys : Cardinality(T) \in 2..MaxExts } }

\* The requests encoded: every list of 1..MaxTx transactions under either
\* kind of credentials without extensions, and one transaction under every
\* Extensions map.
EncRequests ==
    LET EncParams ==
            { NoParams,
              [NoParams EXCEPT !.AppID = "any", !.AppKey = "key"],
              [NoParams EXCEPT !.UserKey = "test"],
              [AppID |-> "any", AppKey |-> "key", Referrer |-> "ref", UserID |-> "uid",
               UserKey |-> "test"] }
        EncMetrics ==
            { EmptyMap, ("hits" :> 1) @@ ("other" :> 2),
              ("hits" :> 0) @@ ("other" :> (0 - 12)) }
        EncTimestamps == {0, 500}
        EncTransactions ==
            [Metrics : EncMetrics, Params : EncParams, Timestamp : EncTimestamps]
        TransactionLists == UNION { [1..n -> EncTransactions] : n \in 1..MaxTx }
        Auths == { [Type |-> "service_token", Value |-> "st"],
                   [Type |-> "provider_key", Value |-> "any"] }
    IN  { [Auth |-> a, Extensions |-> e, Service |-> "svc", Transactions |-> ts] :
            a \in Auths, e \in {NilValue}, ts \in TransactionLists }
        \cup
        { [Auth |-> [Type |-> "service_token", Value |-> "st"],
           Extensions |-> Extensions(kv), Service |-> "svc",
           Transactions |-> <<[Metrics |-> EmptyMap,
                               Params |-> [NoParams EXCEPT !.AppID = "any"],
                               Timestamp |-> 0]>>] : kv \in ExtMaps }

\* The bodies of the responses: an XML document, given by what it holds,
\* or a text that is no XML.
XMLDoc(root, code, authorized, reason, metric, reports) ==
    [xml |-> TRUE, root |-> root, code |-> code, authorized |-> authorized,
     reason |-> reason, metric |-> metric, reports |-> reports]

NotXML == [xml |-> FALSE]

\* fake/xml_resp.go: GetAuthSuccess, GetLimitExceededResp (without its
\* usage report), GenInvalidUserKey.
AuthSuccess == XMLDoc("status", "", TRUE, "", <<>>, <<>>)
LimitExceeded == XMLDoc("status", "", FALSE, "usage limits are exceeded", <<>>, <<>>)
InvalidUserKey == XMLDoc("error", "user_key_invalid", FALSE, "", <<>>, <<>>)

Response(status, header, body) ==
    [err |-> NoError, StatusCode |-> status, Header |-> header, Body |-> body]

InitEnc ==
    /\ NoAggregation
    /\ request \in EncRequests
    /\ httpReq = None
    /\ response = Response(200, EmptyMap, AuthSuccess)
    /\ result = None
    /\ NoCallStarted

SpecEnc == InitEnc /\ [][NextCall]_vars

(***************************************************************************)
(* SpecDec: one call whose request carries the extensions the decoder      *)
(* looks at, answered by every response of DecResponses or by a failure of *)
(* the transport.                                                          *)
(***************************************************************************)
\* The usage_report element of a response body.
UsageReportXML(metric, period, start, end, max, current) ==
    [Metric |-> metric, Period |-> period, PeriodStart |-> start, PeriodEnd |-> end,
     MaxValue |-> max, CurrentValue |-> current]

\* The pairs of the Extensions of a request and the outcome of its round
\* trip.
DecResponses ==
    LET One == <<"1">>
        DecExtensions ==
            { NilValue, Extensions(EmptyMap),
              Extensions(LimitExtension :> One), Extensions(HierarchyExtension :> One),
              Extensions(NoBodyExtension :> One), Extensions(NoBodyExtension :> <<"0">>),
              Extensions((NoBodyExtension :> One) @@ (LimitExtension :> One)),
              Extensions((HierarchyExtension :> One) @@ (LimitExtension :> One)) }
        \* usage_report elements: two metrics, each with a minute and an hour
        \* period, and with a period_start or a period_end not in the layout
        ReportElements ==
            UNION { { UsageReportXML(mt, "minute", "2019-02-22 14:32:00 +0000",
                                     "2019-02-22 14:33:00 +0000", 4, 1),
                      UsageReportXML(mt, "hour", "2019-02-22 14:00:00 +0000",
                                     "2019-02-22 14:59:59 +0000", 40, 10),
                      UsageReportXML(mt, "minute", "2019-02-22",
                                     "2019-02-22 14:33:00 +0000", 4, 1),
                      UsageReportXML(mt, "hour", "2019-02-22 14:00:00 +0000", "", 40, 10) } :
                    mt \in {"hits", "test_metric"} }
        \* the metric elements of a hierarchy
        MetricElements ==
            [Name : {"hits", "test_metric"},
             Children : {"", "a", "a a b", "b a b", " a", "a  b"}]
        SeqsUpTo(S, n) == UNION { [1..k -> S] : k \in 0..n }
        \* the headers of a response
        HeaderValues ==
            [r \in {limitRemainingHeaderKey, limitResetHeaderKey, rejectionReasonHeaderKey} |->
                CASE r = limitRemainingHeaderKey -> {"", "5", "0", "abc"}
                  [] r = limitResetHeaderKey -> {"100", "1x"}
                  [] r = rejectionReasonHeaderKey -> {"", "limits_exceeded"}]
        Headers ==
            UNION { { h \in [S -> {"", "5", "0", "abc", "100", "1x", "limits_exceeded"}] :
                        \A k \in S : h[k] \in HeaderValues[k] } :
                    S \in SUBSET DOMAIN HeaderValues }
        StatusCodes == {200, 202, 302, 403, 409, 500, 503}
    IN  \* every status, header and extension on a plain body
        { <<e, Response(st, h, body)>> :
            e \in DecExtensions, st \in StatusCodes, h \in Headers,
            body \in {NotXML, AuthSuccess, LimitExceeded, InvalidUserKey} }
        \cup
        \* usage reports
        { <<e, Response(st, EmptyMap, XMLDoc("status", "", st = 200, "", <<>>, reps))>> :
            e \in {NilValue, Extensions(NoBodyExtension :> One)}, st \in {200, 409, 500},
            reps \in SeqsUpTo(ReportElements, MaxReports) }
        \cup
        \* a hierarchy
        { <<e, Response(st, EmptyMap, XMLDoc("status", "", TRUE, "", mts, <<>>))>> :
            e \in {NilValue, Extensions(HierarchyExtension :> One),
                   Extensions((HierarchyExtension :> One) @@ (LimitExtension :> One)),
                   Extensions((HierarchyExtension :> One) @@ (NoBodyExtension :> One))},
            st \in {200, 500},
            mts \in SeqsUpTo(MetricElements, MaxMetrics) }
        \cup
        \* the transport fails
        { <<e, [err |-> "context deadline exceeded"]>> : e \in DecExtensions }

InitDec ==
    /\ NoAggregation
    /\ \E d \in DecResponses :
          /\ request = [Auth |-> [Type |-> "provider_key", Value |-> "any"],
                        Extensions |-> d[1], Service |-> "svc",
                        Transactions |-> <<[Metrics |-> EmptyMap,
                                            Params |-> [NoParams EXCEPT !.AppID = "any"],
                                            Timestamp |-> 0]>>]
          /\ response = d[2]
    /\ httpReq = None
    /\ result = None
    /\ NoCallStarted

SpecDec == InitDec /\ [][NextCall]_vars

(***************************************************************************)
(* SpecCall: one call with Options, followed step by step.  The caller     *)
(* builds the request and enters httpClient.Do (Begin), the round trip     *)
(* ends (RoundTrip), and the caller decodes the response and returns       *)
(* (Return).  Between the round trip and the decoding the caller starts a  *)
(* goroutine that invokes the instrumentation callback, if one is set; it  *)
(* runs concurrently with the caller and outlives the call.  The callback  *)
(* is the caller's code: it returns, blocks for ever, or panics.  Nothing  *)
(* recovers a panic in the goroutine, and a panic that is not recovered    *)
(* ends the Go process, the caller with it.                                *)
(***************************************************************************)
\* NewClient: backendHost is the host name of the backend URL (the test
\* client with the invalid URL carries it as its host), which GetPeer
\* returns.
GetPeer(baseURL) == IF baseURL = defaultBackendUrl THEN "su1.3scale.net" ELSE baseURL

\* executeAuthCall / executeReportCall on what httpClient.Do returned.
execute(kind) ==
    LET r == IF kind = report
             THEN executeReportCall(response, request.Extensions)
             ELSE executeAuthCall(response, request.Extensions)
    IN  [kind |-> kind, res |-> r.res, err |-> r.err]

\* doAuthOrAuthRep / doReport: the request is built, and c.httpClient.Do is
\* entered unless building failed.
Begin(kind) ==
    /\ httpReq = None /\ pc = "idle"
    /\ \E baseURL \in BaseURLs : \E b \in build(request, baseURL, kind) :
          /\ httpReq' = [kind |-> kind, in |-> request, baseURL |-> baseURL,
                         req |-> b.req, err |-> b.err]
          /\ IF b.err
             THEN /\ result' = [kind |-> kind, res |-> NilValue, err |-> errHttpReq]
                  /\ pc' = "returned"
                  /\ sent' = sent
             ELSE /\ result' = result
                  /\ pc' = "roundtrip"
                  /\ sent' = sent + 1
    /\ UNCHANGED <<request, response, options, cb, apiVars>>

\* Faulty variant: a round trip that failed is tried once more.
RoundTripRetries ==
    /\ pc = "roundtrip" /\ cb.state # "panicked"
    /\ IF response.err # NoError
       THEN IF sent < 2
            THEN result' = result /\ pc' = pc /\ cb' = cb /\ sent' = sent + 1
            ELSE result' = execute(httpReq.kind) /\ pc' = "returned" /\ cb' = cb
                 /\ sent' = sent
       ELSE /\ result' = result
            /\ pc' = "decode"
            /\ cb' = [cb EXCEPT !.state = "spawned"]
            /\ sent' = sent
    /\ UNCHANGED <<request, httpReq, response, options, apiVars>>

\* c.httpClient.Do returns.  On an error the call returns it; on a response
\* the goroutine of the callback is started.
RoundTrip ==
    /\ pc = "roundtrip" /\ cb.state # "panicked"
    /\ IF response.err # NoError
       THEN /\ result' = execute(httpReq.kind)
            /\ pc' = "returned"
            /\ cb' = cb
       ELSE /\ result' = result
            /\ pc' = "decode"
            /\ cb' = [cb EXCEPT !.state = "spawned"]
    /\ UNCHANGED <<request, httpReq, response, options, sent, apiVars>>

\* The rest of executeAuthCall / executeReportCall: the response is decoded
\* and the call returns.
Return ==
    /\ pc = "decode" /\ cb.state # "panicked"
    /\ result' = execute(httpReq.kind)
    /\ pc' = "returned"
    /\ UNCHANGED <<request, httpReq, response, options, sent, cb, apiVars>>

\* Faulty variant: the callback is left out for a response the backend
\* could not process.
CallbackInvokeBelow500 ==
    /\ cb.state = "spawned"
    /\ cb' = IF options.instrumentationCB = "nil" \/ response.StatusCode >= 500
             THEN [cb EXCEPT !.state = "done"]
             ELSE [state |-> "running",
                   calls |-> Append(cb.calls, [hostName |-> GetPeer(httpReq.baseURL),
                                               statusCode |-> response.StatusCode])]
    /\ UNCHANGED <<request, httpReq, response, result, options, pc, sent, apiVars>>

\* The goroutine runs: it invokes the callback, if one is set, with the
\* peer and the status code of the response.
CallbackInvoke ==
    /\ cb.state = "spawned"
    /\ cb' = IF options.instrumentationCB = "nil"
             THEN [cb EXCEPT !.state = "done"]
             ELSE [state |-> "running",
                   calls |-> Append(cb.calls, [hostName |-> GetPeer(httpReq.baseURL),
                                               statusCode |-> response.StatusCode])]
    /\ UNCHANGED <<request, httpReq, response, result, options, pc, sent, apiVars>>

\* The callback returns, and the goroutine ends.
CallbackReturn ==
    /\ cb.state = "running" /\ options.instrumentationCB = "returns"
    /\ cb' = [cb EXCEPT !.state = "done"]
    /\ UNCHANGED <<request, httpReq, response, result, options, pc, sent, apiVars>>

\* The callback panics: the goroutine has no recover, so the process ends.
CallbackPanic ==
    /\ cb.state = "running" /\ options.instrumentationCB = "panics"
    /\ cb' = [cb EXCEPT !.state = "panicked"]
    /\ UNCHANGED <<request, httpReq, response, result, options, pc, sent, apiVars>>

\* The requests, the outcomes of the round trip and the Options of the
\* calls followed.  A context whose deadline has passed makes
\* httpClient.Do fail with the context's error.
InitCall ==
    LET Credentials == { [Type |-> "provider_key", Value |-> "any"],
                         [Type |-> "service_token", Value |-> ""],
                         [Type |-> "app_token", Value |-> "any"] }
        CallParams == { [NoParams EXCEPT !.AppID = "any"],
                        [NoParams EXCEPT !.UserKey = "test"], NoParams }
        Outcomes == { Response(200, EmptyMap, AuthSuccess),
                      Response(409, (rejectionReasonHeaderKey :> "limits_exceeded"),
                               LimitExceeded),
                      Response(503, EmptyMap, NotXML),
                      [err |-> "dial tcp: connection refused"],
                      [err |-> "context deadline exceeded"] }
    IN  /\ NoAggregation
        /\ request \in [Auth : Credentials,
                        Extensions : {NilValue, Extensions(NoBodyExtension :> <<"1">>)},
                        Service : {"svc"},
                        Transactions : { <<[Metrics |-> EmptyMap, Params |-> p,
                                            Timestamp |-> 0]>> : p \in CallParams }]
        /\ options \in [context : {"TODO", "expired"},
                        instrumentationCB : {"nil", "returns", "blocks", "panics"}]
        /\ response \in Outcomes
        /\ options.context = "expired" => response = [err |-> "context deadline exceeded"]
        /\ httpReq = None /\ result = None
        /\ pc = "idle" /\ sent = 0 /\ cb = [state |-> "none", calls |-> <<>>]

NextStep ==
    \/ Begin(auth) \/ Begin(authRep) \/ Begin(report)
    \/ RoundTrip
    \/ Return
    \/ CallbackInvoke
    \/ CallbackReturn
    \/ CallbackPanic

SpecCall == InitCall /\ [][NextStep]_vars

\* A round trip ends (the transport answers or gives up at its timeout), a
\* caller that can go on does, and the scheduler runs a goroutine that is
\* ready; what the callback does is the caller's business.
SpecCallLive ==
    SpecCall /\ WF_vars(RoundTrip) /\ WF_vars(Return) /\ WF_vars(CallbackInvoke)

(***************************************************************************)
(* The encoder's claims.  What the wire must hold is written out here      *)
(* without the operators of the builder: the wire key of each field of     *)
(* Params, and the decimal numerals of the numbers that are encoded.       *)
(***************************************************************************)
WireKey ==
    [AppID |-> "app_id", AppKey |-> "app_key", Referrer |-> "referrer",
     UserID |-> "user_id", UserKey |-> "user_key"]

Decimal ==
    (0 :> "0") @@ (1 :> "1") @@ (2 :> "2") @@ (3 :> "3") @@ (500 :> "500")
    @@ ((0 - 12) :> "-12")

Built(kinds) == httpReq # None /\ httpReq.kind \in kinds /\ ~httpReq.err

\* The parameters every call carries: the service and the credentials.
BaseParameters(in) == { <<"service_id", in.Service>>, <<in.Auth.Type, in.Auth.Value>> }

\* The parameters of transaction t, each key written by wrap.
ParamParameters(t, wrap(_)) ==
    { <<wrap(WireKey[f]), t.Params[f]>> : f \in { g \in DOMAIN WireKey : t.Params[g] # "" } }

UsageParameters(t, wrap(_)) ==
    { <<wrap(n), Decimal[t.Metrics[n]]>> : n \in DOMAIN t.Metrics }

AuthParameters(in) ==
    BaseParameters(in)
    \cup ParamParameters(in.Transactions[1], LAMBDA k : k)
    \cup UsageParameters(in.Transactions[1], LAMBDA n : "usage[" \o n \o "]")

ReportParameters(in, i) ==
    LET t == in.Transactions[i]
        prefix == "transactions[" \o Decimal[i - 1] \o "]"
    IN  ParamParameters(t, LAMBDA k : prefix \o "[" \o k \o "]")
        \cup UsageParameters(t, LAMBDA n : prefix \o "[usage][" \o n \o "]")
        \cup (IF t.Timestamp # 0
              THEN { <<prefix \o "[timestamp]", Decimal[t.Timestamp]>> } ELSE {})

FirstOnly(in) == [in EXCEPT !.Transactions = <<in.Transactions[1]>>]

\* C13: an Authorize or AuthRep call with several transactions encodes the
\* request it encodes for the first transaction alone.
C13_FirstTransactionOnly ==
    Built({auth, authRep}) =>
        [req |-> httpReq.req, err |-> httpReq.err]
            \in build(FirstOnly(request), httpReq.baseURL, httpReq.kind)

\* C13 witness: an AuthRep request was built for two transactions with
\* different params and metrics.
C13_Witness ==
    /\ Built({authRep})
    /\ Len(request.Transactions) >= 2
    /\ request.Transactions[2].Params # request.Transactions[1].Params
    /\ request.Transactions[2].Metrics # request.Transactions[1].Metrics
    /\ request.Transactions[2].Metrics # EmptyMap

\* Reading the header back: the parts between '&', each cut at its first
\* '=', key and value unescaped ('+' is a space, %XY the byte with that
\* code).  An empty header has no part.
RECURSIVE SplitAt(_, _, _)
SplitAt(s, sep, cur) ==
    IF s = <<>> THEN <<cur>>
    ELSE IF Head(s) = sep THEN <<cur>> \o SplitAt(Tail(s), sep, <<>>)
    ELSE SplitAt(Tail(s), sep, Append(cur, Head(s)))

Parts(header) == IF header = <<>> THEN <<>> ELSE SplitAt(header, "&", <<>>)

RECURSIVE Unescape(_)
Unescape(s) ==
    IF s = <<>> THEN <<>>
    ELSE IF Head(s) = "+" THEN <<" ">> \o Unescape(Tail(s))
    ELSE IF Head(s) = "%" /\ Len(s) >= 3
         THEN LET cs == { c \in DOMAIN Hex : Hex[c] = SubSeq(s, 1, 3) }
              IN  (IF cs = {} THEN <<"?">> ELSE <<CHOOSE c \in cs : TRUE>>)
                      \o Unescape(SubSeq(s, 4, Len(s)))
    ELSE <<Head(s)>> \o Unescape(Tail(s))

RECURSIVE CutAt(_, _)
CutAt(s, i) ==
    IF i > Len(s) THEN <<s, <<>>, FALSE>>
    ELSE IF s[i] = "=" THEN <<SubSeq(s, 1, i - 1), SubSeq(s, i + 1, Len(s)), TRUE>>
    ELSE CutAt(s, i + 1)

ReadPart(part) ==
    LET c == CutAt(part, 1) IN <<Unescape(c[1]), Unescape(c[2]), c[3]>>

\* C14: the extensions go into the 3scale-options header and not into the
\* query; the parts of the header between '&', cut at the first '=' and
\* unescaped, are the entries of the Extensions map, one part per entry.
C14_ExtensionsHeader ==
    (httpReq # None /\ ~httpReq.err) =>
        LET hdr == httpReq.req.Header
            kv == request.Extensions.kv
        IN  /\ httpReq.req.RawQuery \subseteq
                  AuthParameters(request)
                  \cup UNION { ReportParameters(request, i) :
                                 i \in 1..Len(request.Transactions) }
            /\ request.Extensions.nil => enableExtensions \notin DOMAIN hdr
            /\ ~request.Extensions.nil =>
                  /\ enableExtensions \in DOMAIN hdr
                  /\ LET parts == Parts(hdr[enableExtensions])
                     IN  /\ Len(parts) = Cardinality(DOMAIN kv)
                         /\ { ReadPart(parts[i]) : i \in 1..Len(parts) }
                               = { <<k, kv[k], TRUE>> : k \in DOMAIN kv }

\* C14 witness: a request was built whose Extensions hold two entries with
\* '=', '&', ';' and a space among their characters.
C14_Witness ==
    /\ httpReq # None /\ ~httpReq.err
    /\ ~request.Extensions.nil
    /\ DOMAIN request.Extensions.kv = { <<"a", "=">>, <<"a", "&", "a">> }
    /\ request.Extensions.kv[<<"a", "=">>] = <<"a", ";", " ">>
    /\ Len(httpReq.req.Header[enableExtensions]) > 12

(***************************************************************************)
(* The decoder's claims.                                                   *)
(***************************************************************************)
\* The transport returned a response to a call that was built.
Answered(kinds) ==
    /\ result # None /\ result.kind \in kinds
    /\ ~httpReq.err
    /\ response.err = NoError

NoBodyRequested ==
    /\ Requested(request.Extensions, NoBodyExtension)
    /\ request.Extensions.kv[NoBodyExtension] = <<"1">>

\* An Authorize or AuthRep call decoded the XML body of its response.
XMLDecoded ==
    /\ Answered({auth, authRep})
    /\ response.StatusCode < 500
    /\ ~NoBodyRequested
    /\ response.Body.xml

ElementsOf(reports, metric) == SelectSeq(reports, LAMBDA r : r.Metric = metric)

MetricsOf(reports) == { reports[i].Metric : i \in 1..Len(reports) }

\* C15 as stated: UsageReports[metric] holds one entry per usage_report
\* element of the metric, whatever the element holds, and a response
\* without usage_report elements gives no UsageReports.
C15_OneEntryPerElement ==
    XMLDecoded =>
        LET reports == response.Body.reports
            usageReports == result.res.UsageReports
        IN  IF reports = <<>> THEN usageReports.nil
            ELSE /\ ~usageReports.nil
                 /\ DOMAIN usageReports.kv = MetricsOf(reports)
                 /\ \A mt \in MetricsOf(reports) :
                       Len(usageReports.kv[mt]) = Len(ElementsOf(reports, mt))

InLayout(r) == r.PeriodStart \in DOMAIN Unix /\ r.PeriodEnd \in DOMAIN Unix

Converted(reports, metric) ==
    SelectSeq(reports, LAMBDA r : r.Metric = metric /\ InLayout(r))

\* C15 as amended: UsageReports[metric] is the list of the usage_report
\* elements of the metric whose period_start and period_end are in the
\* time layout, in document order, one entry per such element and none
\* merged; an element with another timestamp text is left out, a metric
\* without an element that is in the layout has no entry, and a response
\* without usage_report elements gives no UsageReports.
C15_ReportsAccumulate ==
    XMLDecoded =>
        LET reports == response.Body.reports
            usageReports == result.res.UsageReports
        IN  IF reports = <<>> THEN usageReports.nil
            ELSE /\ ~usageReports.nil
                 /\ DOMAIN usageReports.kv =
                       { mt \in MetricsOf(reports) : Converted(reports, mt) # <<>> }
                 /\ \A mt \in DOMAIN usageReports.kv :
                       LET es == Converted(reports, mt)
                           us == usageReports.kv[mt]
                       IN  /\ Len(us) = Len(es)
                           /\ \A i \in 1..Len(es) :
                                 /\ us[i].MaxValue = es[i].MaxValue
                                 /\ us[i].CurrentValue = es[i].CurrentValue
                                 /\ us[i].PeriodWindow.Start = Unix[es[i].PeriodStart]
                                 /\ us[i].PeriodWindow.End = Unix[es[i].PeriodEnd]

\* C15 witness: a response with a minute and an hour report of the metric
\* hits was decoded into two entries of UsageReports["hits"].
C15_Witness ==
    /\ XMLDecoded
    /\ Len(response.Body.reports) = 2
    /\ response.Body.reports[1].Metric = "hits" /\ response.Body.reports[1].Period = "minute"
    /\ response.Body.reports[2].Metric = "hits" /\ response.Body.reports[2].Period = "hour"
    /\ InLayout(response.Body.reports[1]) /\ InLayout(response.Body.reports[2])
    /\ Len(result.res.UsageReports.kv["hits"]) = 2
    /\ result.res.UsageReports.kv["hits"][2].PeriodWindow.Start = 1550844000

\* The children the XML names for a parent: the pieces of the children
\* attribute of every metric element of that name, in document order.
RECURSIVE NamedChildren(_, _)
NamedChildren(metric, name) ==
    IF metric = <<>> THEN <<>>
    ELSE (IF Head(metric).Name = name /\ Head(metric).Children # ""
          THEN Split(Head(metric).Children, " ") ELSE <<>>)
         \o NamedChildren(Tail(metric), name)

FirstAt(s, x) == CHOOSE i \in 1..Len(s) : s[i] = x /\ \A j \in 1..(i - 1) : s[j] # x

\* C16: with the hierarchy extension requested, the Hierarchy decoded holds
\* for each parent the children the XML names for it, each once and in the
\* order of their first occurrence, and no entry for a metric whose
\* children attribute is empty.
C16_HierarchyDeduplicated ==
    (XMLDecoded /\ Requested(request.Extensions, HierarchyExtension)) =>
        LET h == result.res.Hierarchy
            metric == response.Body.metric
        IN  /\ ~h.nil
            /\ \A name \in { metric[i].Name : i \in 1..Len(metric) } \cup DOMAIN h.kv :
                  LET named == NamedChildren(metric, name)
                  IN  IF named = <<>> THEN name \notin DOMAIN h.kv
                      ELSE /\ name \in DOMAIN h.kv
                           /\ LET cs == h.kv[name]
                              IN  /\ \A i, j \in 1..Len(cs) : i # j => cs[i] # cs[j]
                                  /\ { cs[i] : i \in 1..Len(cs) }
                                        = { named[i] : i \in 1..Len(named) }
                                  /\ \A i, j \in 1..Len(cs) :
                                        i < j => FirstAt(named, cs[i]) < FirstAt(named, cs[j])

\* C16 witness: the children "b a b" of hits and an empty children
\* attribute of test_metric were decoded into hits -> [b, a] alone.
C16_Witness ==
    /\ XMLDecoded /\ Requested(request.Extensions, HierarchyExtension)
    /\ response.Body.metric = << [Name |-> "hits", Children |-> "b a b"],
                                 [Name |-> "test_metric", Children |-> ""] >>
    /\ result.res.Hierarchy.kv = ("hits" :> <<"b", "a">>)

\* C17: the ErrorCode of a result decoded from XML is the value of the
\* rejection-reason header when the header is there and not empty, and the
\* code attribute of the body otherwise.
C17_RejectionReasonFirst ==
    XMLDecoded =>
        LET hdr == response.Header
        IN  result.res.ErrorCode =
                IF rejectionReasonHeaderKey \in DOMAIN hdr /\ hdr[rejectionReasonHeaderKey] # ""
                THEN hdr[rejectionReasonHeaderKey]
                ELSE response.Body.code

\* C17 witness: a body with the code user_key_invalid came with the
\* rejection-reason header limits_exceeded, and the result carries the
\* header's value.
C17_Witness ==
    /\ XMLDecoded
    /\ response.Body.code = "user_key_invalid"
    /\ rejectionReasonHeaderKey \in DOMAIN response.Header
    /\ response.Header[rejectionReasonHeaderKey] = "limits_exceeded"
    /\ result.res.ErrorCode = "limits_exceeded"

HasRateLimitHeader(resp) ==
    \E k \in {limitRemainingHeaderKey, limitResetHeaderKey} : k \in DOMAIN resp.Header

\* C18: RateLimits is not nil only when limit_headers was requested and the
\* response carries a rate-limit header.
C18_RateLimitsOnlyWhenReturned ==
    (Answered({auth, authRep}) /\ ~result.res.nil /\ ~result.res.RateLimits.nil) =>
        /\ Requested(request.Extensions, LimitExtension)
        /\ HasRateLimitHeader(response)

NotIntegers == {"abc", "1x"}

Malformed(resp) ==
    { k \in {limitRemainingHeaderKey, limitResetHeaderKey} :
        k \in DOMAIN resp.Header /\ resp.Header[k] \in NotIntegers }

\* The response with each malformed rate-limit header replaced by 5.
WellFormed(resp) ==
    [resp EXCEPT !.Header = [k \in DOMAIN resp.Header |->
                                IF k \in Malformed(resp) THEN "5" ELSE resp.Header[k]]]

\* C19: with a rate-limit header that is not an integer the call returns no
\* error, the Authorized, ErrorCode, UsageReports and Hierarchy it returns
\* for the same response with a well-formed header, and no RateLimits.
C19_MalformedRateLimit ==
    (/\ Answered({auth, authRep})
     /\ response.StatusCode < 500
     /\ NoBodyRequested \/ response.Body.xml
     /\ Requested(request.Extensions, LimitExtension)
     /\ Malformed(response) # {}) =>
        LET good == executeAuthCall(WellFormed(response), request.Extensions)
        IN  /\ result.err = NoError
            /\ result.res.Authorized = good.res.Authorized
            /\ result.res.ErrorCode = good.res.ErrorCode
            /\ result.res.UsageReports = good.res.UsageReports
            /\ result.res.Hierarchy = good.res.Hierarchy
            /\ result.res.RateLimits.nil

IsErrorDocument(body) == body.xml /\ body.root = "error"

\* C20 as stated: Accepted is true exactly when the status is in 200..299,
\* and for every other status Accepted is false and ErrorCode is the code
\* attribute of the error element of the body.
C20_ReportByStatus ==
    Answered({report}) =>
        IF response.StatusCode \in 200..299
        THEN ~result.res.nil /\ result.res.Accepted
        ELSE /\ result.res.nil \/ ~result.res.Accepted
             /\ IsErrorDocument(response.Body) =>
                   /\ ~result.res.nil
                   /\ result.res.ErrorCode = response.Body.code

\* C20 as amended: Accepted is true exactly when the status is in 200..299,
\* whatever the body; for a status outside 200..299 and below 500 whose
\* body is an error element, Accepted is false, ErrorCode is the code
\* attribute of the element and no error is returned; for a status of 500
\* or above the body is not read: Accepted is false, ErrorCode is empty and
\* an error is returned.
C20_ReportByStatusBelow500 ==
    Answered({report}) =>
        IF response.StatusCode \in 200..299
        THEN ~result.res.nil /\ result.res.Accepted /\ result.err = NoError
        ELSE IF response.StatusCode >= 500
        THEN /\ ~result.res.nil /\ ~result.res.Accepted
             /\ result.res.ErrorCode = ""
             /\ result.err # NoError
        ELSE /\ result.res.nil \/ ~result.res.Accepted
             /\ IsErrorDocument(response.Body) =>
                   /\ ~result.res.nil
                   /\ result.res.ErrorCode = response.Body.code
                   /\ result.err = NoError

\* C20 witness: a Report answered with status 403 and the error element of
\* code user_key_invalid was decoded.
C20_Witness ==
    /\ Answered({report})
    /\ response.StatusCode = 403
    /\ response.Body = InvalidUserKey
    /\ ~result.res.nil /\ ~result.res.Accepted
    /\ result.res.ErrorCode = "user_key_invalid"
\* The code a rejection carries: the code attribute of its body or, when the
\* body has none, the rejection-reason header.
CodeCarried(resp) ==
    IF resp.Body.code # "" THEN resp.Body.code
    ELSE HeaderGet(resp.Header, rejectionReasonHeaderKey)

C29_ServerErrorNotDecoded ==
    (Answered({auth, authRep, report}) /\ response.StatusCode >= 500) =>
        /\ result.err # NoError
        /\ ~result.res.nil
        /\ result.res.ErrorCode = ""
        /\ IF result.kind = report THEN ~result.res.Accepted
           ELSE /\ ~result.res.Authorized
                /\ result.res.UsageReports.nil
                /\ result.res.Hierarchy.nil
                /\ result.res.RateLimits.nil

\* C29 witness: an Authorize that asked for limit_headers was answered with
\* status 500, a rate-limit header, a rejection-reason header and an error
\* element with a code, and returned an error with an empty result.
C29_Witness ==
    /\ Answered({auth})
    /\ response.StatusCode = 500
    /\ response.Body = InvalidUserKey
    /\ Requested(request.Extensions, LimitExtension)
    /\ HeaderGet(response.Header, limitRemainingHeaderKey) = "5"
    /\ HeaderGet(response.Header, rejectionReasonHeaderKey) = "limits_exceeded"
    /\ result.err # NoError
    /\ result.res.ErrorCode = "" /\ result.res.RateLimits.nil

ParamKey(kind, i, k) ==
    IF kind = report THEN "transactions[" \o Decimal[i - 1] \o "][" \o k \o "]" ELSE k

\* C27: AppID and UserKey exclude each other on the wire and UserKey comes
\* first: for every transaction that is encoded and sets both, the query
\* carries user_key with the value of UserKey and carries no app_id, for
\* Authorize, AuthRep and Report alike.
C27_UserKeyPrioritised ==
    Built({auth, authRep, report}) =>
        \A i \in 1..(IF httpReq.kind = report THEN Len(request.Transactions) ELSE 1) :
            LET p == request.Transactions[i].Params
            IN  (p.AppID # "" /\ p.UserKey # "") =>
                  /\ <<ParamKey(httpReq.kind, i, "user_key"), p.UserKey>>
                        \in httpReq.req.RawQuery
                  /\ \A kv \in httpReq.req.RawQuery :
                        kv[1] # ParamKey(httpReq.kind, i, "app_id")

(***************************************************************************)
(* The claims about one call followed step by step (SpecCall).             *)
(***************************************************************************)
\* The request of a call lacks what a valid call carries: a transaction
\* whose Params set neither AppID nor UserKey, credentials with an empty
\* value, or credentials that are neither a service token nor a provider
\* key.
InvalidInput(in) ==
    \/ \E i \in 1..Len(in.Transactions) :
          in.Transactions[i].Params.AppID = "" /\ in.Transactions[i].Params.UserKey = ""
    \/ in.Auth.Value = ""
    \/ in.Auth.Type \notin {"service_token", "provider_key"}

\* C22: input validation happens before the network: a call whose Params
\* set neither AppID nor UserKey, or whose ClientAuth has an empty value or
\* a type other than service token / provider key, returns an error at
\* once and never invokes the HTTP transport.
C22_ValidatedBeforeNetwork ==
    (httpReq # None /\ InvalidInput(request)) =>
        /\ sent = 0
        /\ pc = "returned"
        /\ result.res.nil /\ result.err # NoError

\* C23: every call invokes the HTTP transport at most once; when the
\* transport fails (connection error, timeout, context deadline) the call
\* returns that same error unchanged, with no result and without a retry;
\* when building the request fails the transport is not invoked at all.
C23_TransportAtMostOnce ==
    /\ sent <= 1
    /\ (httpReq # None /\ httpReq.err) =>
          /\ sent = 0
          /\ pc = "returned" /\ result.res.nil /\ result.err = errHttpReq
    /\ (httpReq # None /\ ~httpReq.err /\ response.err # NoError /\ pc = "returned") =>
          /\ sent = 1
          /\ result.res.nil /\ result.err = response.err

\* C23 witness: a call under a context whose deadline has passed returned
\* the context's error after one invocation of the transport.
C23_Witness ==
    /\ pc = "returned" /\ httpReq.kind = auth /\ ~httpReq.err
    /\ options.context = "expired"
    /\ sent = 1
    /\ result.res.nil /\ result.err = "context deadline exceeded"

\* The round trip of the call has returned a response.
Responded ==
    /\ httpReq # None /\ ~httpReq.err
    /\ response.err = NoError
    /\ pc \in {"decode", "returned"}

\* C24: a configured instrumentation callback is eventually invoked, exactly
\* once, for every call whose round trip returned a response, only after
\* the round trip, with the peer host name and the status code of the
\* response; it is never invoked before the round trip has completed nor
\* for a call whose transport failed.
C24_CallbackOnceAfterRoundTrip ==
    /\ [](Len(cb.calls) <= 1)
    /\ [](cb.calls # <<>> =>
            /\ options.instrumentationCB # "nil"
            /\ Responded
            /\ cb.calls[1] = [hostName |-> "su1.3scale.net",
                              statusCode |-> response.StatusCode])
    /\ (options.instrumentationCB # "nil" /\ Responded) ~> (Len(cb.calls) = 1)

\* C24 witness: the callback of an Authorize call answered with 200 has
\* been invoked with the peer and the status, and has returned.
C24_Witness ==
    /\ Responded /\ httpReq.kind = auth
    /\ options.instrumentationCB = "returns"
    /\ response.StatusCode = 200
    /\ cb = [state |-> "done",
             calls |-> <<[hostName |-> "su1.3scale.net", statusCode |-> 200]>>]

\* The result and error the call returns for its response when no callback
\* is configured: those of the same call made without Options.
WithoutCallback ==
    IF httpReq.err THEN [kind |-> httpReq.kind, res |-> NilValue, err |-> errHttpReq]
    ELSE execute(httpReq.kind)

\* C25: the instrumentation callback never blocks or changes the outcome of
\* the call: in every interleaving, also when the callback never returns, a
\* call that was started returns to the caller, and what it returns is what
\* it returns for the same response with no callback configured.
C25_CallbackNeverBlocks ==
    /\ [](pc = "returned" => result = WithoutCallback)
    /\ (httpReq # None) ~> (pc = "returned")

\* C26: a failure or panic inside the instrumentation callback does not
\* propagate: no state is reached in which a panic of the callback has
\* ended the process of the caller.
C26_PanicDoesNotPropagate == cb.state # "panicked"

(***************************************************************************)
(* The claim about sequences of calls on a Metrics map (SpecAgg).          *)
(***************************************************************************)
\* No Metrics map, the receiver's or a returned one, holds a negative value.
AllNonNegative(hp) == \A a \in DOMAIN hp : NonNegative(hp[a])

\* C28: non-negativity is preserved by aggregation: from Metrics maps
\* without a negative value, a call of Set, of Add on an existing name, of
\* Delete, of AddHierarchyToMetrics or of SubtractHierarchyFromMetrics, with
\* any hierarchy and whether or not it returns an error, leaves no negative
\* value in the receiver or in a returned map; a negative value enters only
\* through Add on an absent name with a negative delta.
C28_NonNegativityPreserved ==
    [][ AllNonNegative(heap) =>
          \/ AllNonNegative(heap')
          \/ LET c == hist'[Len(hist')]
             IN  c.op = "Add" /\ c.name \notin DOMAIN c.in /\ c.value < 0 ]_vars

\* C28 witness: after an Add that was refused, SubtractHierarchyFromMetrics
\* removed the parent hits, whose difference was negative, and no map
\* holds a negative value.
C28_Witness ==
    /\ Prev.op = "Add" /\ Prev.err
    /\ Last.op = "SubtractHierarchyFromMetrics"
    /\ "hits" \in DOMAIN Last.in /\ "hits" \notin DOMAIN heap[Last.ret]
    /\ AllNonNegative(heap)
====
